---- MODULE Spec2Model ----
(***************************************************************************)
(* Model of the GAP agriculture MCP server: the forecast client            *)
(* (src/src/gap-client.ts) and the four tools of the dispatcher            *)
(* (src/src/index.ts).                                                     *)
(*                                                                         *)
(* Numbers.  Temperatures, precipitation and coordinates are fixed-point   *)
(* integers in tenths of their unit (296 is 29.6), humidity in hundredths  *)
(* of the fraction (50 is 0.50).  A value the code obtains by a division   *)
(* is an exact fraction [n, d] with d > 0; IEEE rounding is not modelled.  *)
(*                                                                         *)
(* Text.  Strings the code parses are sequences of character codes         *)
(* (digits are 0..9, other characters their ASCII code).  The marks of     *)
(* the advisory lines are written [OK] (check mark), [WARN] (warning       *)
(* sign) and [NO] (cross).                                                 *)
(***************************************************************************)
EXTENDS Integers, Sequences, FiniteSets, TLC

(***************************************************************************)
(* Exact arithmetic                                                        *)
(***************************************************************************)
Rat(n, d) == [n |-> n, d |-> d]

RatInt(n) == Rat(n, 1)

RatAdd(a, b) == Rat(a.n * b.d + b.n * a.d, a.d * b.d)

RatSub(a, b) == Rat(a.n * b.d - b.n * a.d, a.d * b.d)

RatMulInt(a, k) == Rat(a.n * k, a.d)

RatDivInt(a, k) == Rat(a.n, a.d * k)

RatEq(a, b) == a.n * b.d = b.n * a.d

RatLt(a, b) == a.n * b.d < b.n * a.d

RatLe(a, b) == a.n * b.d <= b.n * a.d

RatGt(a, b) == RatLt(b, a)

RatGe(a, b) == RatLe(b, a)

RECURSIVE SeqSum(_)
SeqSum(s) == IF s = <<>> THEN 0 ELSE Head(s) + SeqSum(Tail(s))

RECURSIVE FlatSeq(_)
FlatSeq(ss) == IF ss = <<>> THEN <<>> ELSE Head(ss) \o FlatSeq(Tail(ss))

(***************************************************************************)
(* Character codes of the strings the code splits, parses and compares     *)
(***************************************************************************)
CharT == 84

CharMinus == 45

CharDot == 46

IsDigit(c) == c \in 0..9

(* String.prototype.split('T')[0]: the characters before the first 'T' *)
RECURSIVE SplitT0(_)
SplitT0(s) ==
    IF s = <<>> THEN <<>>
    ELSE IF Head(s) = CharT THEN <<>>
    ELSE <<Head(s)>> \o SplitT0(Tail(s))

(* a.localeCompare(b) for strings of digits: -1, 0 or 1 *)
RECURSIVE localeCompare(_, _)
localeCompare(a, b) ==
    IF a = <<>> /\ b = <<>> THEN 0
    ELSE IF a = <<>> THEN -1
    ELSE IF b = <<>> THEN 1
    ELSE IF Head(a) < Head(b) THEN -1
    ELSE IF Head(a) > Head(b) THEN 1
    ELSE localeCompare(Tail(a), Tail(b))

(***************************************************************************)
(* Raw upstream values (GAPDataPoint): a number, an ensemble array whose   *)
(* elements are numbers or not, or a string                                *)
(***************************************************************************)
NumV(x) == [k |-> "num", n |-> x, a |-> <<>>]

NullV == [k |-> "null", n |-> 0, a |-> <<>>]

StrV == [k |-> "str", n |-> 0, a |-> <<>>]

ArrV(elems) == [k |-> "arr", n |-> 0, a |-> elems]

(* value.filter(v => typeof v === 'number') *)
RECURSIVE FilterNumbers(_)
FilterNumbers(elems) ==
    IF elems = <<>> THEN <<>>
    ELSE IF Head(elems).k = "num"
         THEN <<Head(elems).n>> \o FilterNumbers(Tail(elems))
         ELSE FilterNumbers(Tail(elems))

(* what one data point pushes onto allValues for attribute attr *)
ValuesOf(dp, attr) ==
    IF attr \notin DOMAIN dp.attrs THEN <<>>
    ELSE LET value == dp.attrs[attr]
         IN IF value.k = "arr" THEN FilterNumbers(value.a)
            ELSE IF value.k = "num" THEN <<value.n>>
            ELSE <<>>

(* Step 1: the Map of date -> data points, as the sequence of its entries *)
(* in insertion order                                                      *)
RECURSIVE GroupInto(_, _)
GroupInto(groups, data) ==
    IF data = <<>> THEN groups
    ELSE LET dataPoint == Head(data)
             date == SplitT0(dataPoint.datetime)
             has == \E i \in 1..Len(groups) : groups[i].date = date
             next == IF has
                     THEN [i \in 1..Len(groups) |->
                             IF groups[i].date = date
                             THEN [groups[i] EXCEPT !.dataPoints = Append(@, dataPoint)]
                             ELSE groups[i]]
                     ELSE Append(groups, [date |-> date, dataPoints |-> <<dataPoint>>])
         IN GroupInto(next, Tail(data))

groupedByDate(data) == GroupInto(<<>>, data)

(* the Set of attribute names of a bucket *)
AttributesOf(dataPoints) ==
    UNION {DOMAIN dataPoints[i].attrs : i \in 1..Len(dataPoints)}

AllValues(dataPoints, attr) ==
    FlatSeq([i \in 1..Len(dataPoints) |-> ValuesOf(dataPoints[i], attr)])

MeanOfCount(allValues) == Rat(SeqSum(allValues), Len(allValues) + 1)

(* allValues.reduce((sum, v) => sum + v, 0) / allValues.length *)
MeanOf(allValues) == Rat(SeqSum(allValues), Len(allValues))

TransformedZeroFilled(group, lat, lon) ==
    [date |-> group.date, lat |-> lat, lon |-> lon,
     vals |-> [attr \in AttributesOf(group.dataPoints) |->
                 IF Len(AllValues(group.dataPoints, attr)) > 0
                 THEN MeanOf(AllValues(group.dataPoints, attr))
                 ELSE Rat(0, 1)]]

(* Steps 2-3: one record per bucket; an attribute is set only when it has *)
(* at least one numeric value                                               *)
Transformed(group, lat, lon) ==
    LET present == {attr \in AttributesOf(group.dataPoints) :
                        Len(AllValues(group.dataPoints, attr)) > 0}
    IN [date |-> group.date, lat |-> lat, lon |-> lon,
        vals |-> [attr \in present |-> MeanOf(AllValues(group.dataPoints, attr))]]

(* transformedResults.sort((a, b) => a.date.localeCompare(b.date)); the *)
(* sort of Array.prototype is stable                                      *)
RECURSIVE InsertByDate(_, _)
InsertByDate(sorted, rec) ==
    IF sorted = <<>> THEN <<rec>>
    ELSE IF localeCompare(rec.date, Head(sorted).date) < 0
         THEN <<rec>> \o sorted
         ELSE <<Head(sorted)>> \o InsertByDate(Tail(sorted), rec)

RECURSIVE SortFrom(_, _)
SortFrom(sorted, rest) ==
    IF rest = <<>> THEN sorted
    ELSE SortFrom(InsertByDate(sorted, Head(rest)), Tail(rest))

SortUnsorted(records) == records

SortByDate(records) == SortFrom(<<>>, records)

(***************************************************************************)
(* Upstream exchange.  A fetch outcome is a 2xx response with a JSON body  *)
(* (GAPRawResponse), a non-2xx response, a rejected fetch, or a body that  *)
(* is not JSON.                                                            *)
(***************************************************************************)
Lit(s) == [k |-> "lit", s |-> s, n |-> 0]

Tok(kind, n) == [k |-> kind, s |-> "", n |-> n]

NoRaw == [hasResults |-> FALSE, results |-> <<>>]

OkOutcome(raw) == [kind |-> "ok", status |-> 200, raw |-> raw]

HttpOutcome(status) == [kind |-> "http", status |-> status, raw |-> NoRaw]

NetworkOutcome == [kind |-> "network", status |-> 0, raw |-> NoRaw]

BadJsonOutcome == [kind |-> "badjson", status |-> 200, raw |-> NoRaw]

NoOutcome == [kind |-> "none", status |-> 0, raw |-> NoRaw]

Returned(results) ==
    [threw |-> FALSE, message |-> <<>>, results |-> results, count |-> Len(results)]

Thrown(message) ==
    [threw |-> TRUE, message |-> message, results |-> <<>>, count |-> 0]

NoData == Returned(<<>>)

(* the body of getMeasurement after `await response.json()` *)
TransformThrowing(rawData) ==
    IF rawData.hasResults /\ Len(rawData.results) > 0
    THEN LET result == rawData.results[1]
             groups == groupedByDate(result.data)
         IN IF ~result.hasGeometry \/ Len(result.data) = 0
            THEN Thrown(<<Tok("exception", 1)>>)
            ELSE Returned(SortByDate(
                     [i \in 1..Len(groups) |->
                         Transformed(groups[i], result.coordinates[2], result.coordinates[1])]))
    ELSE Thrown(<<Tok("exception", 1)>>)

Transform(rawData) ==
    IF rawData.hasResults /\ Len(rawData.results) > 0
    THEN LET result == rawData.results[1]
             groups == groupedByDate(result.data)
         IN IF ~result.hasGeometry
            THEN Thrown(<<Tok("exception", 1)>>)
            ELSE Returned(SortByDate(
                     [i \in 1..Len(groups) |->
                         Transformed(groups[i], result.coordinates[2], result.coordinates[1])]))
    ELSE Returned(<<>>)

(* GAPClient.getMeasurement from the fetch outcome on: its return value or *)
(* the Error it throws                                                     *)
getMeasurement(outcome) ==
    IF outcome.kind = "network" THEN Thrown(<<Tok("exception", 2)>>)
    ELSE IF outcome.kind = "http"
    THEN Thrown(<<Lit("GAP API error: "), Tok("status", outcome.status),
                  Tok("statusText", outcome.status), Lit(" - "),
                  Tok("upstreamBody", outcome.status)>>)
    ELSE IF outcome.kind = "badjson" THEN Thrown(<<Tok("exception", 3)>>)
    ELSE Transform(outcome.raw)

(***************************************************************************)
(* JavaScript values of the dispatcher: undefined, NaN or a number         *)
(***************************************************************************)
Undefined == [k |-> "undefined", v |-> 0]

NaN == [k |-> "NaN", v |-> 0]

JsNum(v) == [k |-> "number", v |-> v]

CharSpace == 32

RECURSIVE SkipSpaces(_)
SkipSpaces(s) ==
    IF s # <<>> /\ Head(s) = CharSpace THEN SkipSpaces(Tail(s)) ELSE s

(* the leading run of digits of s *)
RECURSIVE LeadingDigits(_)
LeadingDigits(s) ==
    IF s # <<>> /\ IsDigit(Head(s)) THEN <<Head(s)>> \o LeadingDigits(Tail(s))
    ELSE <<>>

RECURSIVE DigitsValue(_, _)
DigitsValue(acc, ds) ==
    IF ds = <<>> THEN acc ELSE DigitsValue(acc * 10 + Head(ds), Tail(ds))

(* parseFloat: optional blanks, optional '-', digits, optional '.' and    *)
(* digits; what follows is ignored; NaN when there is no digit.  The      *)
(* result is in tenths: fractional digits after the first are dropped.    *)
parseFloat(str) ==
    LET s0 == SkipSpaces(str)
        neg == s0 # <<>> /\ Head(s0) = CharMinus
        s1 == IF neg THEN Tail(s0) ELSE s0
        int == LeadingDigits(s1)
        s2 == SubSeq(s1, Len(int) + 1, Len(s1))
        frac == IF s2 # <<>> /\ Head(s2) = CharDot THEN LeadingDigits(Tail(s2)) ELSE <<>>
        tenths == DigitsValue(0, int) * 10 + (IF frac = <<>> THEN 0 ELSE Head(frac))
    IN IF int = <<>> /\ frac = <<>> THEN NaN
       ELSE JsNum(IF neg THEN -tenths ELSE tenths)

NoHeader == [present |-> FALSE, s |-> <<>>]

Header(chars) == [present |-> TRUE, s |-> chars]

(* headerLat ? parseFloat(headerLat) : undefined *)
DefaultCoordinate(header) ==
    IF header.present /\ header.s # <<>> THEN parseFloat(header.s) ELSE Undefined

CoalesceHeaderFirst(a, b) == IF b.k = "undefined" THEN a ELSE b

(* a ?? b *)
Coalesce(a, b) == IF a.k = "undefined" THEN b ELSE a

(***************************************************************************)
(* Tool parameter schemas (zod), applied before the handler runs           *)
(***************************************************************************)
(* the crop enumeration of get_farming_advisory *)
CropEnum ==
    {"maize", "wheat", "rice", "beans", "vegetables", "tea", "coffee",
     "sorghum", "millet", "cassava", "sweet_potato", "potato",
     "tomato", "cabbage", "kale", "onion", "banana", "sugarcane",
     "cowpea", "pigeon_pea", "groundnut", "sunflower", "cotton"}

(* the crop enumeration of get_planting_recommendation *)
PlantingCropEnum ==
    {"maize", "wheat", "rice", "beans", "vegetables", "tea", "coffee",
     "sorghum", "millet", "cassava", "sweet_potato", "potato",
     "tomato", "cabbage", "kale", "onion", "banana", "sugarcane",
     "cowpea", "pigeon_pea", "groundnut", "sunflower", "cotton"}

IrrigationCropEnumShort ==
    {"maize", "wheat", "rice", "beans", "tea", "coffee",
     "sorghum", "millet", "cassava", "sweet_potato", "potato",
     "tomato", "cabbage", "kale", "onion", "banana", "sugarcane",
     "cowpea", "pigeon_pea", "groundnut", "sunflower", "cotton"}

(* the crop enumeration of get_irrigation_advisory *)
IrrigationCropEnum ==
    {"maize", "wheat", "rice", "beans", "vegetables", "tea", "coffee",
     "sorghum", "millet", "cassava", "sweet_potato", "potato",
     "tomato", "cabbage", "kale", "onion", "banana", "sugarcane",
     "cowpea", "pigeon_pea", "groundnut", "sunflower", "cotton"}

Tools ==
    {"get_weather_forecast", "get_farming_advisory",
     "get_planting_recommendation", "get_irrigation_advisory"}

(* z.number().min(lo).max(hi).optional() *)
OptionalInRange(x, lo, hi) ==
    x.k = "undefined" \/ (x.k = "number" /\ x.v >= lo /\ x.v <= hi)

(* z.enum([...]).optional(); the absent crop is "" *)
OptionalCrop(crop) == crop = "" \/ crop \in CropEnum

SchemaAccepts(q) ==
    /\ OptionalInRange(q.latitude, -900, 900)
    /\ OptionalInRange(q.longitude, -1800, 1800)
    /\ CASE q.tool = "get_weather_forecast" -> OptionalInRange(q.days, 1, 14)
         [] q.tool = "get_farming_advisory" ->
                OptionalCrop(q.crop) /\ OptionalInRange(q.forecast_days, 7, 14)
         [] q.tool = "get_planting_recommendation" -> q.crop \in PlantingCropEnum
         [] q.tool = "get_irrigation_advisory" ->
                q.crop = "" \/ q.crop \in IrrigationCropEnum

(***************************************************************************)
(* Formatting                                                              *)
(***************************************************************************)
(* x.toFixed(1) of a value in tenths: the nearest integer, the larger on a tie *)
ToFixed1(r) == (2 * r.n + r.d) \div (2 * r.d)

(* x.toFixed(0) of a value in tenths, in whole units *)
ToFixed0(r) == (2 * r.n + 10 * r.d) \div (20 * r.d)

RECURSIVE EncodeChars(_, _)
EncodeChars(acc, s) ==
    IF s = <<>> THEN acc ELSE EncodeChars(acc * 100 + Head(s) + 1, Tail(s))

DateTok(date) == Tok("date", EncodeChars(0, date))

(* `${lat}` *)
CoordTok(kind, x) == [k |-> kind, s |-> x.k, n |-> x.v]

(* Number(r[attr]) || 0 *)
NumberOr0(day, attr) ==
    IF attr \in DOMAIN day.vals THEN day.vals[attr] ELSE RatInt(0)

RECURSIVE RatSum(_)
RatSum(rs) == IF rs = <<>> THEN RatInt(0) ELSE RatAdd(Head(rs), RatSum(Tail(rs)))

(* results.reduce((sum, r) => sum + (Number(r[attr]) || 0), 0) *)
Total(results, attr) == RatSum([i \in 1..Len(results) |-> NumberOr0(results[i], attr)])

DaysHaving(results, attr) ==
    Cardinality({i \in 1..Len(results) : attr \in DOMAIN results[i].vals})

AverageOfPresent(results, attr) ==
    IF DaysHaving(results, attr) = 0 THEN RatInt(0)
    ELSE RatDivInt(Total(results, attr), DaysHaving(results, attr))

(* ... / results.length *)
Average(results, attr) == RatDivInt(Total(results, attr), Len(results))

(* results.slice(0, n) *)
Slice0(results, n) == SubSeq(results, 1, IF Len(results) < n THEN Len(results) ELSE n)

(***************************************************************************)
(* Results common to the four tools                                        *)
(***************************************************************************)
ToolResult(isError, text) == [isError |-> isError, text |-> text]

NoResult == ToolResult(FALSE, <<>>)

(* the SDK's answer to arguments the schema rejects: the handler is not run *)
InvalidArguments == ToolResult(TRUE, <<Lit("Invalid arguments for tool")>>)

(* a technical identifier quoted in a text (a header or variable name) *)
Identifier(name) == [k |-> "identifier", s |-> name, n |-> 0]

MissingLocation ==
    ToolResult(TRUE,
        <<Lit("ERROR: Latitude and longitude are required. Please provide coordinates either as parameters or configure them in the MCP server headers ("),
          Identifier("X-Farm-Latitude"), Identifier("X-Farm-Longitude"), Lit(").")>>)

TokenNotConfigured ==
    ToolResult(TRUE,
        <<Lit("ERROR: GAP API token is not configured. Please set the "),
          Identifier("GAP_API_TOKEN"), Lit(" environment variable.")>>)

CatchPrefix(tool) ==
    CASE tool = "get_weather_forecast" -> "Error fetching weather forecast: "
      [] tool = "get_farming_advisory" -> "Error generating farming advisory: "
      [] tool = "get_planting_recommendation" -> "Error generating planting recommendation: "
      [] tool = "get_irrigation_advisory" -> "Error generating irrigation advisory: "

(* catch (error) { ... text: `Error ...: ${error.message}`, isError: true } *)
Caught(tool, message) == ToolResult(TRUE, <<Lit(CatchPrefix(tool))>> \o message)

NoDataResultAsError(tool, lat, lon) ==
    ToolResult(TRUE, <<Lit("No data available for this location.")>>)

NoDataResult(tool, lat, lon) ==
    IF tool = "get_weather_forecast"
    THEN ToolResult(FALSE, <<Lit("No weather data available for coordinates ("),
                             CoordTok("lat", lat), CoordTok("lon", lon),
                             Lit("). Please check if the coordinates are correct.")>>)
    ELSE ToolResult(FALSE, <<Lit("No data available for this location.")>>)

(***************************************************************************)
(* Tool 3: get_planting_recommendation                                     *)
(***************************************************************************)
InBand(x, lo, hi) == RatGe(x, RatInt(lo)) /\ RatLe(x, RatInt(hi))

AtLeast(x, lo) == RatGe(x, RatInt(lo))

Below(x, hi) == RatLt(x, RatInt(hi))

Above(x, lo) == RatGt(x, RatInt(lo))

Verdict(shouldPlant, reasons) == [shouldPlant |-> shouldPlant, reasons |-> reasons]

(* if (band) { push(ok); shouldPlant = true } else { push(fail); shouldPlant = false } *)
TemperatureCheck(avgTemp, lo, hi, ok, fail) ==
    IF InBand(avgTemp, lo, hi) THEN Verdict(TRUE, <<ok>>) ELSE Verdict(FALSE, <<fail>>)

(* a rainfall check that pushes reasons and leaves shouldPlant alone *)
WithReasons(v, reasons) == Verdict(v.shouldPlant, v.reasons \o reasons)

MaizeRuleOptimalBand(avgTemp, totalRainfall) ==
    LET t == TemperatureCheck(avgTemp, 180, 270,
                 "[OK] Temperature is suitable", "[NO] Temperature is not optimal")
    IN IF InBand(totalRainfall, 300, 1000)
       THEN WithReasons(t, <<"[OK] Rainfall is adequate">>)
       ELSE IF Below(totalRainfall, 300)
       THEN WithReasons(t, <<"[WARN] Low rainfall - irrigation will be needed">>)
       ELSE WithReasons(t, <<"[WARN] Very high rainfall - ensure good drainage">>)

MaizeRule(avgTemp, totalRainfall) ==
    LET t == TemperatureCheck(avgTemp, 180, 300,
                 "[OK] Temperature is suitable", "[NO] Temperature is not optimal")
    IN IF InBand(totalRainfall, 300, 1000)
       THEN WithReasons(t, <<"[OK] Rainfall is adequate">>)
       ELSE IF Below(totalRainfall, 300)
       THEN WithReasons(t, <<"[WARN] Low rainfall - irrigation will be needed">>)
       ELSE WithReasons(t, <<"[WARN] Very high rainfall - ensure good drainage">>)

WheatRule(avgTemp, totalRainfall) ==
    LET t == TemperatureCheck(avgTemp, 150, 250,
                 "[OK] Temperature is suitable", "[NO] Temperature not ideal for wheat")
    IN IF InBand(totalRainfall, 200, 600)
       THEN WithReasons(t, <<"[OK] Moisture levels are good">>)
       ELSE WithReasons(t, <<"[WARN] Rainfall may not be optimal">>)

BeansRuleNoOverride(avgTemp, totalRainfall) ==
    LET t == TemperatureCheck(avgTemp, 160, 280,
                 "[OK] Temperature is suitable", "[NO] Temperature not optimal")
    IN IF InBand(totalRainfall, 200, 700)
       THEN WithReasons(t, <<"[OK] Rainfall is appropriate">>)
       ELSE IF Above(totalRainfall, 700)
       THEN WithReasons(t, <<"[WARN] High rainfall - beans are sensitive to waterlogging">>)
       ELSE t

BeansRule(avgTemp, totalRainfall) ==
    LET t == TemperatureCheck(avgTemp, 160, 280,
                 "[OK] Temperature is suitable", "[NO] Temperature not optimal")
    IN IF InBand(totalRainfall, 200, 700)
       THEN WithReasons(t, <<"[OK] Rainfall is appropriate">>)
       ELSE IF Above(totalRainfall, 700)
       THEN Verdict(FALSE, t.reasons \o
                <<"[WARN] High rainfall - beans are sensitive to waterlogging">>)
       ELSE t

VegetablesRule(avgTemp, totalRainfall) ==
    LET t == TemperatureCheck(avgTemp, 150, 320,
                 "[OK] Temperature suitable for most vegetables",
                 "[WARN] Temperature may be challenging for vegetables")
    IN IF AtLeast(totalRainfall, 150)
       THEN WithReasons(t, <<"[OK] Adequate moisture expected">>)
       ELSE t

RiceRuleRainDecides(avgTemp, totalRainfall) ==
    LET t == TemperatureCheck(avgTemp, 200, 350,
                 "[OK] Temperature is good for rice", "[NO] Temperature not ideal")
    IN IF AtLeast(totalRainfall, 500)
       THEN Verdict(TRUE, t.reasons \o <<"[OK] High rainfall suitable for rice cultivation">>)
       ELSE WithReasons(t, <<"[WARN] Ensure adequate irrigation for rice paddies">>)

RiceRule(avgTemp, totalRainfall) ==
    LET t == TemperatureCheck(avgTemp, 200, 350,
                 "[OK] Temperature is good for rice", "[NO] Temperature not ideal")
    IN IF AtLeast(totalRainfall, 500)
       THEN WithReasons(t, <<"[OK] High rainfall suitable for rice cultivation">>)
       ELSE WithReasons(t, <<"[WARN] Ensure adequate irrigation for rice paddies">>)

TeaCoffeeRulePercent(avgTemp, avgHumidity) ==
    LET t == TemperatureCheck(avgTemp, 180, 260,
                 "[OK] Temperature is suitable", "[WARN] Temperature not ideal for crop")
    IN IF AtLeast(RatMulInt(avgHumidity, 100), 60)
       THEN WithReasons(t, <<"[OK] Good humidity levels">>)
       ELSE t

TeaCoffeeRule(avgTemp, avgHumidity) ==
    LET t == TemperatureCheck(avgTemp, 180, 260,
                 "[OK] Temperature is suitable", "[WARN] Temperature not ideal for crop")
    IN IF AtLeast(avgHumidity, 60)
       THEN WithReasons(t, <<"[OK] Good humidity levels">>)
       ELSE t

SorghumMilletRuleLowRain(avgTemp, totalRainfall) ==
    LET t == TemperatureCheck(avgTemp, 220, 350,
                 "[OK] Temperature is suitable", "[NO] Temperature not optimal for crop")
    IN IF Below(totalRainfall, 500)
       THEN WithReasons(t, <<"[OK] Sufficient moisture for germination">>)
       ELSE WithReasons(t, <<"[WARN] Consider irrigation for establishment">>)

SorghumMilletRule(avgTemp, totalRainfall) ==
    LET t == TemperatureCheck(avgTemp, 220, 350,
                 "[OK] Temperature is suitable", "[NO] Temperature not optimal for crop")
    IN IF AtLeast(totalRainfall, 150)
       THEN WithReasons(t, <<"[OK] Sufficient moisture for germination">>)
       ELSE WithReasons(t, <<"[WARN] Consider irrigation for establishment">>)

CassavaRule(avgTemp, totalRainfall) ==
    LET t == TemperatureCheck(avgTemp, 200, 320,
                 "[OK] Temperature is suitable", "[NO] Temperature not ideal")
    IN IF AtLeast(totalRainfall, 400)
       THEN WithReasons(t, <<"[OK] Good rainfall for establishment">>)
       ELSE WithReasons(t, <<"[WARN] Ensure irrigation during establishment phase">>)

PotatoRule(avgTemp, totalRainfall) ==
    LET t == TemperatureCheck(avgTemp, 150, 270,
                 "[OK] Temperature is suitable", "[NO] Temperature not optimal")
    IN IF InBand(totalRainfall, 300, 800)
       THEN WithReasons(t, <<"[OK] Rainfall is appropriate">>)
       ELSE IF Above(totalRainfall, 800)
       THEN WithReasons(t, <<"[WARN] High rainfall - ensure good drainage">>)
       ELSE t

GardenRule(avgTemp, totalRainfall) ==
    LET t == TemperatureCheck(avgTemp, 150, 280,
                 "[OK] Temperature suitable for vegetables",
                 "[NO] Temperature may be challenging")
    IN IF InBand(totalRainfall, 200, 600)
       THEN WithReasons(t, <<"[OK] Good moisture levels">>)
       ELSE IF Below(totalRainfall, 200)
       THEN WithReasons(t, <<"[WARN] Plan for irrigation">>)
       ELSE t

BananaRule(avgTemp, totalRainfall) ==
    LET t == TemperatureCheck(avgTemp, 220, 320,
                 "[OK] Temperature is suitable", "[NO] Temperature not ideal")
    IN IF AtLeast(totalRainfall, 500)
       THEN WithReasons(t, <<"[OK] Good rainfall for bananas">>)
       ELSE WithReasons(t, <<"[WARN] Plan for regular irrigation">>)

SugarcaneRule(avgTemp, totalRainfall) ==
    LET t == TemperatureCheck(avgTemp, 200, 320,
                 "[OK] Temperature is suitable", "[NO] Temperature not optimal")
    IN IF AtLeast(totalRainfall, 400)
       THEN WithReasons(t, <<"[OK] Good rainfall for establishment">>)
       ELSE WithReasons(t, <<"[WARN] Ensure adequate irrigation">>)

LegumeRuleRainOverride(avgTemp, totalRainfall) ==
    LET t == TemperatureCheck(avgTemp, 200, 320,
                 "[OK] Temperature is suitable", "[NO] Temperature not ideal")
    IN IF InBand(totalRainfall, 250, 700)
       THEN WithReasons(t, <<"[OK] Appropriate rainfall">>)
       ELSE IF Above(totalRainfall, 700)
       THEN Verdict(FALSE, t.reasons \o <<"[WARN] High rainfall - monitor for waterlogging">>)
       ELSE t

LegumeRule(avgTemp, totalRainfall) ==
    LET t == TemperatureCheck(avgTemp, 200, 320,
                 "[OK] Temperature is suitable", "[NO] Temperature not ideal")
    IN IF InBand(totalRainfall, 250, 700)
       THEN WithReasons(t, <<"[OK] Appropriate rainfall">>)
       ELSE IF Above(totalRainfall, 700)
       THEN WithReasons(t, <<"[WARN] High rainfall - monitor for waterlogging">>)
       ELSE t

SunflowerRule(avgTemp, totalRainfall) ==
    LET t == TemperatureCheck(avgTemp, 180, 280,
                 "[OK] Temperature is suitable", "[NO] Temperature not optimal")
    IN IF InBand(totalRainfall, 200, 600)
       THEN WithReasons(t, <<"[OK] Good rainfall conditions">>)
       ELSE t

CottonRuleWideBand(avgTemp, totalRainfall) ==
    LET t == TemperatureCheck(avgTemp, 200, 320,
                 "[OK] Temperature is suitable", "[NO] Temperature not optimal")
    IN IF InBand(totalRainfall, 250, 700)
       THEN WithReasons(t, <<"[OK] Appropriate rainfall">>)
       ELSE t

CottonRule(avgTemp, totalRainfall) ==
    LET t == TemperatureCheck(avgTemp, 200, 300,
                 "[OK] Temperature is suitable", "[NO] Temperature not optimal")
    IN IF InBand(totalRainfall, 250, 700)
       THEN WithReasons(t, <<"[OK] Appropriate rainfall">>)
       ELSE t

(* default: no else branch, shouldPlant keeps its initial false *)
DefaultRule(avgTemp, totalRainfall) ==
    LET t == IF InBand(avgTemp, 180, 300)
             THEN Verdict(TRUE, <<"[OK] Temperature is in general suitable range">>)
             ELSE Verdict(FALSE, <<>>)
    IN IF AtLeast(totalRainfall, 200)
       THEN WithReasons(t, <<"[OK] Some rainfall expected">>)
       ELSE t

(* switch (crop) *)
PlantingVerdict(crop, avgTemp, totalRainfall, avgHumidity) ==
    CASE crop = "maize" -> MaizeRule(avgTemp, totalRainfall)
      [] crop = "wheat" -> WheatRule(avgTemp, totalRainfall)
      [] crop = "beans" -> BeansRule(avgTemp, totalRainfall)
      [] crop = "vegetables" -> VegetablesRule(avgTemp, totalRainfall)
      [] crop = "rice" -> RiceRule(avgTemp, totalRainfall)
      [] crop \in {"tea", "coffee"} -> TeaCoffeeRule(avgTemp, avgHumidity)
      [] crop \in {"sorghum", "millet"} -> SorghumMilletRule(avgTemp, totalRainfall)
      [] crop = "cassava" -> CassavaRule(avgTemp, totalRainfall)
      [] crop \in {"sweet_potato", "potato"} -> PotatoRule(avgTemp, totalRainfall)
      [] crop \in {"tomato", "cabbage", "kale", "onion"} -> GardenRule(avgTemp, totalRainfall)
      [] crop = "banana" -> BananaRule(avgTemp, totalRainfall)
      [] crop = "sugarcane" -> SugarcaneRule(avgTemp, totalRainfall)
      [] crop \in {"cowpea", "pigeon_pea", "groundnut"} -> LegumeRule(avgTemp, totalRainfall)
      [] crop = "sunflower" -> SunflowerRule(avgTemp, totalRainfall)
      [] crop = "cotton" -> CottonRule(avgTemp, totalRainfall)
      [] OTHER -> DefaultRule(avgTemp, totalRainfall)

FirstWeekDays == 7

firstWeekAll(results) == results

firstWeek(results) == Slice0(results, FirstWeekDays)

VerdictYes == "RECOMMENDATION: [OK] YES - Conditions are favorable for planting"

VerdictWait == "RECOMMENDATION: WAIT - Conditions are not optimal at this time"

PlantingRecommendation(crop, lat, lon, results) ==
    LET avgTemp == Average(firstWeek(results), "max_temperature")
        totalRainfall == Total(firstWeek(results), "precipitation")
        avgHumidity == Average(firstWeek(results), "relative_humidity")
        v == PlantingVerdict(crop, avgTemp, totalRainfall, avgHumidity)
    IN ToolResult(FALSE,
         <<Lit("Planting Recommendation for "), [k |-> "crop", s |-> crop, n |-> 0],
           Lit("Location: ("), CoordTok("lat", lat), CoordTok("lon", lon),
           Lit("Current Conditions (Next 7 days):"),
           Lit("  Temperature: "), Tok("num1", ToFixed1(avgTemp)),
           Lit("  Expected Rainfall: "), Tok("num1", ToFixed1(totalRainfall)),
           Lit("  Humidity: "), Tok("pct", ToFixed1(RatMulInt(avgHumidity, 10))),
           Lit("Requirements:"), Lit("Assessment:")>>
         \o [i \in 1..Len(v.reasons) |-> Lit(v.reasons[i])]
         \o (IF v.shouldPlant
             THEN <<Lit(VerdictYes), [k |-> "crop", s |-> crop, n |-> 0], Lit("Next Steps:")>>
             ELSE <<Lit(VerdictWait), Lit("Suggestions:")>>))

(***************************************************************************)
(* Tool 4: get_irrigation_advisory                                         *)
(***************************************************************************)
IrrigationDays == 7

(* avgTemp * 0.6 *)
estimatedET(avgTemp) == Rat(avgTemp.n * 6, avgTemp.d * 10)

(* estimatedET * 7 - totalRainfall *)
waterDeficit(avgTemp, totalRainfall) ==
    RatSub(RatMulInt(estimatedET(avgTemp), 7), totalRainfall)

DisplayedDeficitRaw(deficit) == ToFixed1(deficit)

(* waterDeficit > 0 ? waterDeficit.toFixed(1) : 0 *)
DisplayedDeficit(deficit) == IF Above(deficit, 0) THEN ToFixed1(deficit) ELSE 0

TierNone == "[OK] NO IRRIGATION NEEDED - Rainfall is sufficient"

TierLight == "[WARN] LIGHT IRRIGATION RECOMMENDED"

TierModerate == "MODERATE IRRIGATION NEEDED"

TierHeavy == "HEAVY IRRIGATION REQUIRED"

IrrigationTierShifted(deficit) ==
    IF Below(deficit, 0)
    THEN <<Lit(TierNone)>>
    ELSE IF RatLe(deficit, RatInt(200))
    THEN <<Lit(TierLight), Lit("  - Apply approximately "), Tok("num0", ToFixed0(deficit)),
           Lit("  - 1-2 irrigation sessions should be sufficient")>>
    ELSE IF RatLe(deficit, RatInt(400))
    THEN <<Lit(TierModerate), Lit("  - Apply approximately "), Tok("num0", ToFixed0(deficit)),
           Lit("  - Schedule 2-3 irrigation sessions")>>
    ELSE <<Lit(TierHeavy), Lit("  - Apply approximately "), Tok("num0", ToFixed0(deficit)),
           Lit("  - Schedule 3-4 irrigation sessions"),
           Lit("  - Consider drip irrigation for efficiency")>>

IrrigationTier(deficit) ==
    IF RatLe(deficit, RatInt(0))
    THEN <<Lit(TierNone)>>
    ELSE IF Below(deficit, 200)
    THEN <<Lit(TierLight), Lit("  - Apply approximately "), Tok("num0", ToFixed0(deficit)),
           Lit("  - 1-2 irrigation sessions should be sufficient")>>
    ELSE IF Below(deficit, 400)
    THEN <<Lit(TierModerate), Lit("  - Apply approximately "), Tok("num0", ToFixed0(deficit)),
           Lit("  - Schedule 2-3 irrigation sessions")>>
    ELSE <<Lit(TierHeavy), Lit("  - Apply approximately "), Tok("num0", ToFixed0(deficit)),
           Lit("  - Schedule 3-4 irrigation sessions"),
           Lit("  - Consider drip irrigation for efficiency")>>

DailyGuideHeatFirst(day) ==
    LET precip == NumberOr0(day, "precipitation")
        maxTemp == NumberOr0(day, "max_temperature")
    IN <<DateTok(day.date),
         Lit("    Rain: "), Tok("num1", ToFixed1(precip)),
         Lit(", Temp: "), Tok("num1", ToFixed1(maxTemp)),
         Lit(IF Above(maxTemp, 300) THEN "    Irrigate - hot and dry conditions"
             ELSE IF AtLeast(precip, 100) THEN "    [OK] Skip irrigation - sufficient rain expected"
             ELSE IF AtLeast(precip, 50) THEN "    [WARN] Light irrigation if soil is dry"
             ELSE "    Irrigate if no recent rain")>>

(* the body of results.forEach((day) => ...) *)
DailyGuide(day) ==
    LET precip == NumberOr0(day, "precipitation")
        maxTemp == NumberOr0(day, "max_temperature")
    IN <<DateTok(day.date),
         Lit("    Rain: "), Tok("num1", ToFixed1(precip)),
         Lit(", Temp: "), Tok("num1", ToFixed1(maxTemp)),
         Lit(IF AtLeast(precip, 100) THEN "    [OK] Skip irrigation - sufficient rain expected"
             ELSE IF AtLeast(precip, 50) THEN "    [WARN] Light irrigation if soil is dry"
             ELSE IF Above(maxTemp, 300) THEN "    Irrigate - hot and dry conditions"
             ELSE "    Irrigate if no recent rain")>>

IrrigationAdvisory(crop, lat, lon, results) ==
    LET totalRainfall == Total(results, "precipitation")
        avgTemp == Average(results, "max_temperature")
        avgHumidity == Average(results, "relative_humidity")
        deficit == waterDeficit(avgTemp, totalRainfall)
    IN ToolResult(FALSE,
         <<Lit("Irrigation Advisory"),
           Lit("Location: ("), CoordTok("lat", lat), CoordTok("lon", lon)>>
         \o (IF crop # "" THEN <<Lit("Crop: "), [k |-> "crop", s |-> crop, n |-> 0]>> ELSE <<>>)
         \o <<Lit("7-Day Forecast Summary:"),
              Lit("  Expected Rainfall: "), Tok("num1", ToFixed1(totalRainfall)),
              Lit("  Average Temperature: "), Tok("num1", ToFixed1(avgTemp)),
              Lit("  Average Humidity: "), Tok("pct", ToFixed1(RatMulInt(avgHumidity, 10))),
              Lit("Water Balance:"),
              Lit("  Estimated Water Loss (ET): "),
              Tok("num1", ToFixed1(RatMulInt(estimatedET(avgTemp), 7))),
              Lit("  Expected Rainfall: "), Tok("num1", ToFixed1(totalRainfall)),
              Lit("  Water Deficit: "), Tok("deficit", DisplayedDeficit(deficit)),
              Lit("Irrigation Recommendation:")>>
         \o IrrigationTier(deficit)
         \o <<Lit("Day-by-Day Irrigation Guide:")>>
         \o FlatSeq([i \in 1..Len(results) |-> DailyGuide(results[i])])
         \o <<Lit("Irrigation Tips:"),
              Lit(IF crop = "rice" THEN "  - Maintain standing water for rice paddies"
                  ELSE "  - Avoid waterlogging (except for rice)")>>)

(***************************************************************************)
(* Tool 1: get_weather_forecast                                            *)
(***************************************************************************)
AttrLine(day, attr, label) ==
    IF attr \in DOMAIN day.vals
    THEN <<Lit(label), Tok("num1", ToFixed1(day.vals[attr]))>>
    ELSE <<>>

DayListing(day) ==
    <<Lit("Date: "), DateTok(day.date)>>
    \o AttrLine(day, "max_temperature", "  Max Temperature: ")
    \o AttrLine(day, "min_temperature", "  Min Temperature: ")
    \o AttrLine(day, "precipitation", "  Precipitation: ")
    \o (IF "relative_humidity" \in DOMAIN day.vals
        THEN <<Lit("  Humidity: "),
               Tok("pct", ToFixed1(RatMulInt(day.vals["relative_humidity"], 10)))>>
        ELSE <<>>)
    \o AttrLine(day, "wind_speed", "  Wind Speed: ")

WeatherForecast(lat, lon, days, results) ==
    ToolResult(FALSE,
        <<Lit("Weather Forecast for ("), CoordTok("lat", lat), CoordTok("lon", lon),
          Lit("Period: "), Tok("days", days)>>
        \o FlatSeq([i \in 1..Len(results) |-> DayListing(results[i])]))

(***************************************************************************)
(* Tool 2: get_farming_advisory                                            *)
(***************************************************************************)
TemperatureAdvice(avgMaxTemp) ==
    IF Above(avgMaxTemp, 350)
    THEN <<Lit("  [WARN] High temperatures expected. Consider:"),
           Lit("     - Increase irrigation frequency"),
           Lit("     - Apply mulch to retain soil moisture"),
           Lit("     - Monitor for heat stress in crops")>>
    ELSE IF Below(avgMaxTemp, 150)
    THEN <<Lit("  [WARN] Cool temperatures expected. Consider:"),
           Lit("     - Delay planting of warm-season crops"),
           Lit("     - Protect sensitive plants from cold")>>
    ELSE <<Lit("  [OK] Temperature conditions are favorable for most crops")>>

RainfallAdviceInclusive(totalPrecip) ==
    IF Below(totalPrecip, 100)
    THEN <<Lit("  [WARN] Low rainfall expected. Action needed:"),
           Lit("     - Plan for supplemental irrigation"),
           Lit("     - Check soil moisture regularly"),
           Lit("     - Consider drought-resistant varieties")>>
    ELSE IF AtLeast(totalPrecip, 1000)
    THEN <<Lit("  [WARN] Heavy rainfall expected. Take precautions:"),
           Lit("     - Ensure good drainage in fields"),
           Lit("     - Delay fertilizer application"),
           Lit("     - Monitor for fungal diseases")>>
    ELSE <<Lit("  [OK] Rainfall levels are adequate for normal farming activities")>>

RainfallAdvice(totalPrecip) ==
    IF Below(totalPrecip, 100)
    THEN <<Lit("  [WARN] Low rainfall expected. Action needed:"),
           Lit("     - Plan for supplemental irrigation"),
           Lit("     - Check soil moisture regularly"),
           Lit("     - Consider drought-resistant varieties")>>
    ELSE IF Above(totalPrecip, 1000)
    THEN <<Lit("  [WARN] Heavy rainfall expected. Take precautions:"),
           Lit("     - Ensure good drainage in fields"),
           Lit("     - Delay fertilizer application"),
           Lit("     - Monitor for fungal diseases")>>
    ELSE <<Lit("  [OK] Rainfall levels are adequate for normal farming activities")>>

(* switch (crop) of the advisory *)
CropAdvice(crop, avgMaxTemp, totalPrecip) ==
    CASE crop = "maize" ->
            <<Lit("  - Optimal temp range: 18-27C"), Lit("  - Water needs: Moderate to high")>>
            \o (IF InBand(avgMaxTemp, 180, 270) /\ AtLeast(totalPrecip, 300)
                THEN <<Lit("  [OK] Conditions favorable for maize growth")>> ELSE <<>>)
      [] crop = "wheat" ->
            <<Lit("  - Optimal temp range: 15-24C"), Lit("  - Water needs: Moderate")>>
            \o (IF InBand(avgMaxTemp, 150, 240)
                THEN <<Lit("  [OK] Good conditions for wheat")>> ELSE <<>>)
      [] crop \in {"sorghum", "millet"} ->
            <<Lit("  - Heat-tolerant, ideal for drier conditions"),
              Lit("  - Optimal temp range: 25-35C")>>
            \o (IF AtLeast(avgMaxTemp, 250) /\ Below(totalPrecip, 500)
                THEN <<Lit("  [OK] Good conditions for crop")>> ELSE <<>>)
      [] crop = "cassava" ->
            <<Lit("  - Drought-tolerant once established"),
              Lit("  - Needs moisture in first 3 months"), Lit("  - Optimal temp: 25-29C")>>
      [] crop \in {"sweet_potato", "potato"} ->
            <<Lit("  - Prefers cool to moderate temperatures"),
              Lit("  - Monitor soil moisture carefully"), Lit("  - Optimal temp: 18-24C")>>
      [] crop \in {"tomato", "cabbage", "kale", "onion"} ->
            <<Lit("  - Regular moisture critical"),
              Lit("  - Watch for fungal diseases in high humidity"),
              Lit("  - Optimal temp: 18-25C")>>
      [] crop = "banana" ->
            <<Lit("  - High water needs year-round"), Lit("  - Protect from strong winds"),
              Lit("  - Optimal temp: 26-30C")>>
      [] crop \in {"tea", "coffee"} ->
            <<Lit("  - Needs well-distributed rainfall"), Lit("  - High humidity beneficial"),
              Lit("  - Optimal temp: 18-25C")>>
      [] crop \in {"cowpea", "pigeon_pea", "groundnut"} ->
            <<Lit("  - Nitrogen-fixing legume"), Lit("  - Moderate water needs"),
              Lit("  - Optimal temp: 25-30C")>>
      [] crop = "vegetables" ->
            <<Lit("  - Most vegetables prefer 18-30C"), Lit("  - Consistent moisture needed")>>
            \o (IF InBand(totalPrecip, 200, 600)
                THEN <<Lit("  [OK] Good conditions for vegetable cultivation")>> ELSE <<>>)
      [] OTHER -> <<Lit("  - Consult local extension for specific advice")>>

IsDryDayInclusive(r) == ~Above(NumberOr0(r, "precipitation"), 20)

(* r => (Number(r.precipitation) || 0) < 2 *)
IsDryDay(r) == Below(NumberOr0(r, "precipitation"), 20)

(* results.filter(...) *)
RECURSIVE dryDays(_)
dryDays(results) ==
    IF results = <<>> THEN <<>>
    ELSE IF IsDryDay(Head(results))
         THEN <<Head(results)>> \o dryDays(Tail(results))
         ELSE dryDays(Tail(results))

DryDaysShown == 3

FarmingAdvisory(crop, lat, lon, forecast_days, results) ==
    LET avgMaxTemp == Average(results, "max_temperature")
        avgMinTemp == Average(results, "min_temperature")
        totalPrecip == Total(results, "precipitation")
        avgHumidity == Average(results, "relative_humidity")
        shown == Slice0(dryDays(results), DryDaysShown)
    IN ToolResult(FALSE,
         <<Lit("Agricultural Advisory for ("), CoordTok("lat", lat), CoordTok("lon", lon)>>
         \o (IF crop # "" THEN <<Lit("Crop: "), [k |-> "crop", s |-> crop, n |-> 0]>> ELSE <<>>)
         \o <<Lit("Forecast Period: "), Tok("days", forecast_days),
              Lit("Weather Summary:"),
              Lit("  Average Max Temperature: "), Tok("num1", ToFixed1(avgMaxTemp)),
              Lit("  Average Min Temperature: "), Tok("num1", ToFixed1(avgMinTemp)),
              Lit("  Total Expected Rainfall: "), Tok("num1", ToFixed1(totalPrecip)),
              Lit("  Average Humidity: "), Tok("pct", ToFixed1(RatMulInt(avgHumidity, 10))),
              Lit("Recommendations:")>>
         \o TemperatureAdvice(avgMaxTemp)
         \o RainfallAdvice(totalPrecip)
         \o (IF crop # ""
             THEN <<Lit("Specific advice for "), [k |-> "crop", s |-> crop, n |-> 0]>>
                  \o CropAdvice(crop, avgMaxTemp, totalPrecip)
             ELSE <<>>)
         \o <<Lit("Best Days for Farming Activities:")>>
         \o (IF Len(shown) > 0
             THEN <<Lit("  Good days for field work: ")>>
                  \o [i \in 1..Len(shown) |-> DateTok(shown[i].date)]
             ELSE <<>>))

(***************************************************************************)
(* The server.  One POST /mcp carries one tool call; the express handler   *)
(* runs up to the upstream fetch, and resumes when the fetch settles.      *)
(***************************************************************************)
VARIABLES
    gapClient,  \* TRUE when GAP_API_TOKEN is set and the client was constructed
    pc,         \* per request: "idle", "awaiting" (the fetch is pending) or "done"
    request,    \* per request: the tool call and the fallback headers
    upstream,   \* per request: the upstream requests this invocation has issued
    response,   \* per request: the fetch outcome it received
    data,       \* per request: what getForecast / getFarmingForecast returned or threw
    result      \* per request: the tool result sent back

vars == <<gapClient, pc, request, upstream, response, data, result>>

Call(tool, latitude, longitude, crop, headerLat, headerLon) ==
    [tool |-> tool, latitude |-> latitude, longitude |-> longitude,
     days |-> Undefined, forecast_days |-> Undefined, crop |-> crop,
     headerLat |-> headerLat, headerLon |-> headerLon]

NoRequest == Call("", Undefined, Undefined, "", NoHeader, NoHeader)

(* the fallback kept in one variable for the whole server: every handler *)
(* reads the header of the request in the first slot                      *)
defaultLatitudeShared(q) == DefaultCoordinate(request[1].headerLat)

(* const defaultLatitude = headerLat ? parseFloat(headerLat) : undefined, *)
(* a constant of the request's own handler                                *)
defaultLatitude(q) == DefaultCoordinate(q.headerLat)

defaultLongitude(q) == DefaultCoordinate(q.headerLon)

(* const lat = latitude ?? defaultLatitude *)
ResolvedLat(q) == Coalesce(q.latitude, defaultLatitude(q))

(* const lon = longitude ?? defaultLongitude *)
ResolvedLon(q) == Coalesce(q.longitude, defaultLongitude(q))

(* the default of a destructured parameter: `days = 7` *)
OrDefault(x, dflt) == IF x.k = "undefined" THEN dflt ELSE x.v

(* the window each tool asks the client for *)
WindowDays(q) ==
    CASE q.tool = "get_weather_forecast" -> OrDefault(q.days, 7)
      [] q.tool = "get_farming_advisory" -> OrDefault(q.forecast_days, 14)
      [] q.tool = "get_planting_recommendation" -> 14
      [] q.tool = "get_irrigation_advisory" -> IrrigationDays

(* getForecast asks for the five basic attributes, getFarmingForecast for *)
(* the extended list                                                       *)
AttributeList(q) ==
    IF q.tool \in {"get_farming_advisory", "get_planting_recommendation"}
    THEN "farming" ELSE "forecast"

MeasurementParams(q) ==
    [lat |-> ResolvedLat(q), lon |-> ResolvedLon(q), days |-> WindowDays(q),
     product |-> "salient_seasonal_forecast", attributes |-> AttributeList(q)]

(* the handler before the client call: what it returns without fetching, *)
(* NoResult when it goes on to fetch                                      *)
EarlyReturn(q) ==
    IF ResolvedLat(q).k = "undefined" \/ ResolvedLon(q).k = "undefined"
    THEN MissingLocation
    ELSE NoResult

(* the handler after `await gapClient.get...Forecast(...)` *)
Continue(q, m) ==
    IF m.threw THEN Caught(q.tool, m.message)
    ELSE IF m.count = 0 THEN NoDataResult(q.tool, ResolvedLat(q), ResolvedLon(q))
    ELSE CASE q.tool = "get_weather_forecast" ->
                WeatherForecast(ResolvedLat(q), ResolvedLon(q), WindowDays(q), m.results)
           [] q.tool = "get_farming_advisory" ->
                FarmingAdvisory(q.crop, ResolvedLat(q), ResolvedLon(q), WindowDays(q), m.results)
           [] q.tool = "get_planting_recommendation" ->
                PlantingRecommendation(q.crop, ResolvedLat(q), ResolvedLon(q), m.results)
           [] q.tool = "get_irrigation_advisory" ->
                IrrigationAdvisory(q.crop, ResolvedLat(q), ResolvedLon(q), m.results)

Init(n) ==
    /\ gapClient \in BOOLEAN
    /\ pc = [r \in 1..n |-> "idle"]
    /\ request = [r \in 1..n |-> NoRequest]
    /\ upstream = [r \in 1..n |-> <<>>]
    /\ response = [r \in 1..n |-> NoOutcome]
    /\ data = [r \in 1..n |-> NoData]
    /\ result = [r \in 1..n |-> NoResult]

PostWithoutClientCheck(r, Calls) ==
    /\ pc[r] = "idle"
    /\ \E q \in Calls :
        /\ request' = [request EXCEPT ![r] = q]
        /\ IF ~SchemaAccepts(q)
           THEN /\ result' = [result EXCEPT ![r] = InvalidArguments]
                /\ upstream' = [upstream EXCEPT ![r] = <<>>]
                /\ pc' = [pc EXCEPT ![r] = "done"]
           ELSE IF EarlyReturn(q) # NoResult
           THEN /\ result' = [result EXCEPT ![r] = EarlyReturn(q)]
                /\ upstream' = [upstream EXCEPT ![r] = <<>>]
                /\ pc' = [pc EXCEPT ![r] = "done"]
           ELSE /\ result' = [result EXCEPT ![r] = NoResult]
                /\ upstream' = [upstream EXCEPT ![r] = <<MeasurementParams(q)>>]
                /\ pc' = [pc EXCEPT ![r] = "awaiting"]
    /\ UNCHANGED <<gapClient, response, data>>

(* app.post('/mcp'): read the headers, validate the arguments, run the   *)
(* tool handler up to its upstream fetch                                  *)
Post(r, Calls) ==
    /\ pc[r] = "idle"
    /\ \E q \in Calls :
        /\ request' = [request EXCEPT ![r] = q]
        /\ IF ~SchemaAccepts(q)
           THEN /\ result' = [result EXCEPT ![r] = InvalidArguments]
                /\ upstream' = [upstream EXCEPT ![r] = <<>>]
                /\ pc' = [pc EXCEPT ![r] = "done"]
           ELSE IF EarlyReturn(q) # NoResult
           THEN /\ result' = [result EXCEPT ![r] = EarlyReturn(q)]
                /\ upstream' = [upstream EXCEPT ![r] = <<>>]
                /\ pc' = [pc EXCEPT ![r] = "done"]
           ELSE IF ~gapClient
           THEN /\ result' = [result EXCEPT ![r] = TokenNotConfigured]
                /\ upstream' = [upstream EXCEPT ![r] = <<>>]
                /\ pc' = [pc EXCEPT ![r] = "done"]
           ELSE /\ result' = [result EXCEPT ![r] = NoResult]
                /\ upstream' = [upstream EXCEPT ![r] = <<MeasurementParams(q)>>]
                /\ pc' = [pc EXCEPT ![r] = "awaiting"]
    /\ UNCHANGED <<gapClient, response, data>>

FetchRespondRetrying(r, Outcomes) ==
    /\ pc[r] = "awaiting"
    /\ \E outcome \in Outcomes :
        /\ response' = [response EXCEPT ![r] = outcome]
        /\ IF outcome.kind = "http" /\ Len(upstream[r]) < 2
           THEN /\ upstream' = [upstream EXCEPT ![r] = Append(@, MeasurementParams(request[r]))]
                /\ UNCHANGED <<pc, data, result>>
           ELSE /\ data' = [data EXCEPT ![r] = getMeasurement(outcome)]
                /\ result' = [result EXCEPT ![r] = Continue(request[r], data'[r])]
                /\ pc' = [pc EXCEPT ![r] = "done"]
                /\ UNCHANGED upstream
    /\ UNCHANGED <<gapClient, request>>

(* the fetch settles: getMeasurement finishes and the handler builds its *)
(* result                                                                 *)
FetchRespond(r, Outcomes) ==
    /\ pc[r] = "awaiting"
    /\ \E outcome \in Outcomes :
        /\ response' = [response EXCEPT ![r] = outcome]
        /\ data' = [data EXCEPT ![r] = getMeasurement(outcome)]
        /\ result' = [result EXCEPT ![r] = Continue(request[r], data'[r])]
    /\ pc' = [pc EXCEPT ![r] = "done"]
    /\ UNCHANGED <<gapClient, request, upstream>>

(* the result is sent; server, transport and handler state of the request *)
(* are dropped (the endpoint is stateless)                                 *)
Close(r) ==
    /\ pc[r] = "done"
    /\ pc' = [pc EXCEPT ![r] = "idle"]
    /\ request' = [request EXCEPT ![r] = NoRequest]
    /\ upstream' = [upstream EXCEPT ![r] = <<>>]
    /\ response' = [response EXCEPT ![r] = NoOutcome]
    /\ data' = [data EXCEPT ![r] = NoData]
    /\ result' = [result EXCEPT ![r] = NoResult]
    /\ UNCHANGED gapClient

(***************************************************************************)
(* Inputs.  Upstream bodies are built as the API documents them:           *)
(* results[0].geometry.coordinates = [lon, lat], results[0].data[] =       *)
(* {datetime, <attribute>: number | number[]}.                             *)
(***************************************************************************)
DayChars(i) == <<i \div 10, i % 10>>

Sample(datetime, attrs) == [datetime |-> datetime, attrs |-> attrs]

Group(samples) == [hasGeometry |-> TRUE, coordinates |-> <<368, 13>>, data |-> samples]

GroupNoGeometry == [hasGeometry |-> FALSE, coordinates |-> <<>>, data |-> <<>>]

Raw(groups) == [hasResults |-> TRUE, results |-> groups]

(* a day of the forecast: max temperature and precipitation in tenths,    *)
(* humidity in hundredths; ens > 0 spreads the values over two ensemble   *)
(* members                                                                 *)
Day(t, p, h, ens) == [t |-> t, p |-> p, h |-> h, ens |-> ens]

Member(x, ens) ==
    IF ens = 0 THEN NumV(x) ELSE ArrV(<<NumV(x - ens), NumV(x + ens)>>)

DaySample(i, day) ==
    Sample(DayChars(i) \o <<CharT, 0, 0>>,
           [max_temperature |-> Member(day.t, day.ens),
            min_temperature |-> NumV(day.t - 80),
            precipitation |-> Member(day.p, day.ens),
            relative_humidity |-> NumV(day.h),
            wind_speed |-> NumV(30)])

SeriesBody(days) == Raw(<<Group([i \in 1..Len(days) |-> DaySample(i, days[i])])>>)

SeqsUpTo(S, n) == UNION {[1..m -> S] : m \in 1..n}

ValidCall(tool, crop) == Call(tool, JsNum(13), JsNum(368), crop, NoHeader, NoHeader)

(* Dispatch: every tool, every source of each coordinate, every outcome *)
LatitudeArgs == {Undefined, JsNum(13), JsNum(950)}

LongitudeArgs == {Undefined, JsNum(368), JsNum(2000)}

(* header values: absent, empty, "1.3", "95", "x"; absent, empty, "36.8", *)
(* "200", "-x"                                                           *)
LatitudeHeaders ==
    {NoHeader, Header(<<>>), Header(<<1, CharDot, 3>>), Header(<<9, 5>>), Header(<<120>>)}

LongitudeHeaders ==
    {NoHeader, Header(<<>>), Header(<<3, 6, CharDot, 8>>), Header(<<2, 0, 0>>),
     Header(<<CharMinus, 120>>)}

DispatchCalls ==
    {Call(tool, la, lo, IF tool = "get_planting_recommendation" THEN "maize" ELSE "", hla, hlo) :
        tool \in Tools, la \in LatitudeArgs, lo \in LongitudeArgs,
        hla \in LatitudeHeaders, hlo \in LongitudeHeaders}

DispatchOutcomes ==
    {HttpOutcome(401), HttpOutcome(404), NetworkOutcome, BadJsonOutcome,
     OkOutcome(NoRaw), OkOutcome(Raw(<<>>)), OkOutcome(Raw(<<Group(<<>>)>>)),
     OkOutcome(Raw(<<GroupNoGeometry>>)),
     OkOutcome(SeriesBody(<<Day(240, 500, 50, 0)>>))}

(* Rules: the advisory tools on forecasts around the thresholds *)
MaxRuleDays == 2

DayProfiles ==
    {Day(240, 500, 50, 0), Day(180, 300, 60, 0), Day(300, 1000, 65, 0),
     Day(301, 1001, 50, 0), Day(200, 850, 50, 0), Day(160, 700, 50, 0),
     Day(296, 6, 50, 6), Day(100, 420, 50, 0), Day(100, 220, 50, 0),
     Day(100, 20, 50, 0), Day(100, 300, 50, 0), Day(100, 500, 50, 0)}

RuleCalls ==
    {ValidCall("get_planting_recommendation", crop) : crop \in CropEnum}
    \cup {ValidCall("get_irrigation_advisory", crop) : crop \in {"", "rice"}}
    \cup {ValidCall("get_weather_forecast", ""), ValidCall("get_farming_advisory", "maize")}

RuleOutcomes == {OkOutcome(SeriesBody(days)) : days \in SeqsUpTo(DayProfiles, MaxRuleDays)}

(* Crops: the three tools that take a crop, on every crop name of the     *)
(* enumerations, on no crop and on names outside the enumerations          *)
CropTools ==
    {"get_farming_advisory", "get_planting_recommendation", "get_irrigation_advisory"}

CropInputs ==
    CropEnum \cup PlantingCropEnum \cup IrrigationCropEnum \cup {"", "yam", "Maize"}

CropCalls == {ValidCall(tool, crop) : tool \in CropTools, crop \in CropInputs}

CropOutcomes == {OkOutcome(SeriesBody(<<Day(240, 500, 50, 0)>>)), OkOutcome(Raw(<<>>))}

(* Windows: forecasts longer than a week.  A series is a week of days     *)
(* followed by up to MaxTailDays later days; the week's last day may       *)
(* differ from the others                                                  *)
MaxTailDays == 2

WeekProfiles == {Day(240, 70, 50, 0), Day(200, 40, 60, 0), Day(100, 60, 65, 0)}

TailProfiles == {Day(400, 2000, 90, 0), Day(0, 0, 10, 0), Day(240, 70, 50, 0)}

Week(base, last) == [i \in 1..7 |-> IF i = 7 THEN last ELSE base]

WindowSeries ==
    {Week(base, last) \o tail :
        base \in WeekProfiles, last \in WeekProfiles,
        tail \in {<<>>} \cup SeqsUpTo(TailProfiles, MaxTailDays)}

WindowCalls ==
    {ValidCall("get_planting_recommendation", crop) : crop \in {"maize", "beans", "tea"}}
    \cup {ValidCall("get_irrigation_advisory", "")}

WindowOutcomes == {OkOutcome(SeriesBody(days)) : days \in WindowSeries}

(* Bands: the planting tool on forecasts whose mean max temperature sits  *)
(* on, just below and just above every band limit, as one day or as the    *)
(* mean of two                                                             *)
BandLimits == {150, 160, 180, 200, 220, 250, 260, 270, 280, 300, 320, 350}

BandSeries ==
    {<<Day(limit + off, 500, 50, 0)>> : limit \in BandLimits, off \in {-1, 0, 1}}
    \cup {<<Day(limit - 10, 500, 50, 0), Day(limit + 10 + off, 0, 50, 0)>> :
            limit \in BandLimits, off \in {-1, 0, 1}}

BandCalls == {ValidCall("get_planting_recommendation", crop) : crop \in PlantingCropEnum}

BandOutcomes == {OkOutcome(SeriesBody(days)) : days \in BandSeries}

(* Farming: the advisory on forecasts of up to MaxFarmDays days that are  *)
(* hot, cold or mild, and dry, wet or in between, with the limits 15 C,   *)
(* 35 C, 2 mm, 10 mm and 100 mm met exactly                               *)
MaxFarmDays == 4

FarmProfiles ==
    {Day(360, 0, 50, 0), Day(100, 19, 50, 0), Day(250, 20, 50, 0), Day(150, 100, 50, 0),
     Day(150, 1001, 50, 0), Day(350, 1001, 50, 0), Day(400, 500, 50, 0)}

FarmCalls == {ValidCall("get_farming_advisory", crop) : crop \in {"", "maize"}}

FarmOutcomes == {OkOutcome(SeriesBody(days)) : days \in SeqsUpTo(FarmProfiles, MaxFarmDays)}

(* Guide: the irrigation advisory on days that are hot or not and have    *)
(* rain on either side of 5 mm and 10 mm, the limits met exactly           *)
GuideProfiles ==
    {Day(350, 100, 50, 0), Day(350, 50, 50, 0), Day(350, 49, 50, 0), Day(300, 49, 50, 0),
     Day(301, 0, 50, 0), Day(200, 99, 50, 0), Day(200, 2000, 50, 0), Day(320, 1500, 50, 0)}

GuideCalls == {ValidCall("get_irrigation_advisory", crop) : crop \in {"", "rice"}}

GuideOutcomes == {OkOutcome(SeriesBody(days)) : days \in SeqsUpTo(GuideProfiles, MaxRuleDays)}

(* Concurrency: two requests in flight at once, with fallback headers    *)
(* "1.3" / "36.8" or "2.5" / "30", explicit coordinates or neither, and    *)
(* upstream answers that differ                                            *)
Farm13 == Header(<<1, CharDot, 3>>)

Farm368 == Header(<<3, 6, CharDot, 8>>)

Farm25 == Header(<<2, CharDot, 5>>)

Farm30 == Header(<<3, 0>>)

ConcurrentCallsOf(tool) ==
    {Call(tool, Undefined, Undefined, "", Farm13, Farm368),
     Call(tool, Undefined, Undefined, "", Farm25, Farm30),
     Call(tool, JsNum(-45), JsNum(100), "", Farm25, Farm30),
     Call(tool, Undefined, Undefined, "", NoHeader, NoHeader)}

ConcurrentCalls ==
    ConcurrentCallsOf("get_weather_forecast") \cup ConcurrentCallsOf("get_farming_advisory")

ConcurrentOutcomes ==
    {HttpOutcome(401), OkOutcome(Raw(<<>>)),
     OkOutcome(SeriesBody(<<Day(240, 500, 50, 0)>>)),
     OkOutcome(SeriesBody(<<Day(360, 0, 50, 0), Day(100, 19, 50, 0)>>))}

(* Gaps: forecasts in which a day has no usable value for one attribute,  *)
(* because the sample lacks the key or carries a string there              *)
GapKinds == {"absent", "string"}

GapAttributes == {"max_temperature", "min_temperature", "precipitation", "relative_humidity"}

GapDay(day, attr, kind) == [day |-> day, attr |-> attr, kind |-> kind]

GapSample(i, gap) ==
    LET full == DaySample(i, gap.day).attrs
        kept == IF gap.kind = "absent" THEN DOMAIN full \ {gap.attr} ELSE DOMAIN full
    IN Sample(DayChars(i) \o <<CharT, 0, 0>>,
              [a \in kept |-> IF a = gap.attr THEN StrV ELSE full[a]])

GapDays ==
    {GapDay(day, attr, kind) :
        day \in {Day(240, 500, 50, 0), Day(300, 100, 60, 0)},
        attr \in GapAttributes \cup {"none"}, kind \in GapKinds}

GapBody(gaps) == Raw(<<Group([i \in 1..Len(gaps) |-> GapSample(i, gaps[i])])>>)

GapCalls ==
    {ValidCall("get_farming_advisory", ""), ValidCall("get_planting_recommendation", "maize"),
     ValidCall("get_irrigation_advisory", "")}

GapOutcomes == {OkOutcome(GapBody(gaps)) : gaps \in SeqsUpTo(GapDays, MaxRuleDays)}

(* Rain: the planting tool on forecasts whose rainfall total sits on,     *)
(* just below and just above every limit of the rainfall checks, as one    *)
(* day or as the sum of two; the mean humidity moves around 0.60 with it   *)
RainLimits == {150, 200, 250, 300, 400, 500, 600, 700, 800, 1000}

RainSeries ==
    {<<Day(240, limit + off, 60 + off, 0)>> : limit \in RainLimits, off \in {-1, 0, 1}}
    \cup {<<Day(240, 100, 55, 0), Day(240, limit - 100 + off, 65 + 2 * off, 0)>> :
            limit \in RainLimits, off \in {-1, 0, 1}}
    \cup {<<Day(240, 0, 50, 0)>>}

RainCalls == {ValidCall("get_planting_recommendation", crop) : crop \in PlantingCropEnum}

RainOutcomes == {OkOutcome(SeriesBody(days)) : days \in RainSeries}

(* Aggregation: raw samples that share dates, with ensembles, scalars and *)
(* non-numeric values                                                      *)
MaxSamples == 3

Day02 == DayChars(2)

Day02T06 == DayChars(2) \o <<CharT, 0, 6>>

Day01T00 == DayChars(1) \o <<CharT, 0, 0>>

Day10T00 == DayChars(10) \o <<CharT, 0, 0>>

AggSamples ==
    {Sample(Day02, [max_temperature |-> NumV(2)]),
     Sample(Day02T06, [max_temperature |-> ArrV(<<NumV(1), NumV(3)>>)]),
     Sample(Day02T06, [max_temperature |-> ArrV(<<NullV, NumV(6)>>), precipitation |-> NumV(5)]),
     Sample(Day02T06, [max_temperature |-> StrV]),
     Sample(Day01T00, [max_temperature |-> NumV(2)]),
     Sample(Day01T00, [max_temperature |-> StrV, precipitation |-> NumV(5)]),
     Sample(Day01T00, [max_temperature |-> ArrV(<<NumV(1), NumV(3)>>)]),
     Sample(Day10T00, [max_temperature |-> NumV(4)]),
     Sample(Day10T00, [precipitation |-> NumV(5)]),
     Sample(Day10T00, [max_temperature |-> ArrV(<<NullV, NumV(6)>>), precipitation |-> NumV(7)])}

AggCalls == {ValidCall("get_weather_forecast", "")}

AggOutcomes ==
    {OkOutcome(Raw(<<Group(samples)>>)) : samples \in SeqsUpTo(AggSamples, MaxSamples)}

(***************************************************************************)
(* Specifications                                                          *)
(***************************************************************************)
InitDispatch == Init(1)

PostCall == \E r \in DOMAIN pc : Post(r, DispatchCalls)

Settle == \E r \in DOMAIN pc : FetchRespond(r, DispatchOutcomes)

CloseRequest == \E r \in DOMAIN pc : Close(r)

Next == PostCall \/ Settle \/ CloseRequest

Spec == InitDispatch /\ [][Next]_vars

(* Progress.  The server's own steps always run once they can: a settled   *)
(* fetch resumes the handler within Settle, and a finished request is      *)
(* answered and dropped.  Whether the upstream ever answers is not the     *)
(* server's to decide: fetch is called without a timeout or an abort       *)
(* signal, so nothing is assumed of Settle.                                *)
SpecLive == InitDispatch /\ [][Next]_vars /\ WF_vars(CloseRequest)

InitRules == Init(1) /\ gapClient

PostRuleCall == \E r \in DOMAIN pc : Post(r, RuleCalls)

SettleForecast == \E r \in DOMAIN pc : FetchRespond(r, RuleOutcomes)

NextRules == PostRuleCall \/ SettleForecast \/ CloseRequest

SpecRules == InitRules /\ [][NextRules]_vars

InitCrops == Init(1) /\ gapClient

PostCropCall == \E r \in DOMAIN pc : Post(r, CropCalls)

SettleCropCall == \E r \in DOMAIN pc : FetchRespond(r, CropOutcomes)

NextCrops == PostCropCall \/ SettleCropCall \/ CloseRequest

SpecCrops == InitCrops /\ [][NextCrops]_vars

InitWindow == Init(1) /\ gapClient

PostWindowCall == \E r \in DOMAIN pc : Post(r, WindowCalls)

SettleWindow == \E r \in DOMAIN pc : FetchRespond(r, WindowOutcomes)

NextWindow == PostWindowCall \/ SettleWindow \/ CloseRequest

SpecWindow == InitWindow /\ [][NextWindow]_vars

InitBands == Init(1) /\ gapClient

PostBandCall == \E r \in DOMAIN pc : Post(r, BandCalls)

SettleBand == \E r \in DOMAIN pc : FetchRespond(r, BandOutcomes)

NextBands == PostBandCall \/ SettleBand \/ CloseRequest

SpecBands == InitBands /\ [][NextBands]_vars

InitRain == Init(1) /\ gapClient

PostRainCall == \E r \in DOMAIN pc : Post(r, RainCalls)

SettleRain == \E r \in DOMAIN pc : FetchRespond(r, RainOutcomes)

NextRain == PostRainCall \/ SettleRain \/ CloseRequest

SpecRain == InitRain /\ [][NextRain]_vars

InitGuide == Init(1) /\ gapClient

PostGuideCall == \E r \in DOMAIN pc : Post(r, GuideCalls)

SettleGuide == \E r \in DOMAIN pc : FetchRespond(r, GuideOutcomes)

NextGuide == PostGuideCall \/ SettleGuide \/ CloseRequest

SpecGuide == InitGuide /\ [][NextGuide]_vars

(* two request slots: the host runtime serves a second POST while the    *)
(* first awaits its fetch                                                 *)
InitConcurrent == Init(2)

PostConcurrent == \E r \in DOMAIN pc : Post(r, ConcurrentCalls)

SettleConcurrent == \E r \in DOMAIN pc : FetchRespond(r, ConcurrentOutcomes)

NextConcurrent == PostConcurrent \/ SettleConcurrent \/ CloseRequest

SpecConcurrent == InitConcurrent /\ [][NextConcurrent]_vars

InitGaps == Init(1) /\ gapClient

PostGapCall == \E r \in DOMAIN pc : Post(r, GapCalls)

SettleGap == \E r \in DOMAIN pc : FetchRespond(r, GapOutcomes)

NextGaps == PostGapCall \/ SettleGap \/ CloseRequest

SpecGaps == InitGaps /\ [][NextGaps]_vars

InitFarming == Init(1) /\ gapClient

PostFarmCall == \E r \in DOMAIN pc : Post(r, FarmCalls)

SettleFarm == \E r \in DOMAIN pc : FetchRespond(r, FarmOutcomes)

NextFarming == PostFarmCall \/ SettleFarm \/ CloseRequest

SpecFarming == InitFarming /\ [][NextFarming]_vars

InitAgg == Init(1) /\ gapClient

PostAggCall == \E r \in DOMAIN pc : Post(r, AggCalls)

SettleSamples == \E r \in DOMAIN pc : FetchRespond(r, AggOutcomes)

NextAgg == PostAggCall \/ SettleSamples \/ CloseRequest

SpecAgg == InitAgg /\ [][NextAgg]_vars

(***************************************************************************)
(* Properties of the aggregation (getMeasurement)                          *)
(***************************************************************************)
Done(r) == pc[r] = "done"

(* a request whose fetch returned a body with samples *)
Aggregated(r) ==
    /\ Done(r)
    /\ response[r].kind = "ok"
    /\ response[r].raw.hasResults
    /\ Len(response[r].raw.results) > 0
    /\ ~data[r].threw

RawSamples(r) == response[r].raw.results[1].data

(* the calendar date of a raw sample: its datetime up to the first 'T' *)
DatePart(datetime) ==
    LET ts == {k \in 1..Len(datetime) : datetime[k] = CharT}
    IN IF ts = {} THEN datetime
       ELSE SubSeq(datetime, 1, (CHOOSE k \in ts : \A j \in ts : k <= j) - 1)

(* the numeric values one raw sample holds for an attribute *)
NumericIndices(value) ==
    IF value.k = "arr" THEN {j \in 1..Len(value.a) : value.a[j].k = "num"} ELSE {}

RECURSIVE SumOver(_, _)
SumOver(S, f) ==
    IF S = {} THEN 0 ELSE LET x == CHOOSE y \in S : TRUE IN f[x] + SumOver(S \ {x}, f)

SampleCount(sample, attr) ==
    IF attr \notin DOMAIN sample.attrs THEN 0
    ELSE IF sample.attrs[attr].k = "num" THEN 1
    ELSE Cardinality(NumericIndices(sample.attrs[attr]))

SampleSum(sample, attr) ==
    IF attr \notin DOMAIN sample.attrs THEN 0
    ELSE IF sample.attrs[attr].k = "num" THEN sample.attrs[attr].n
    ELSE LET value == sample.attrs[attr]
         IN SumOver(NumericIndices(value), [j \in NumericIndices(value) |-> value.a[j].n])

SamplesOn(samples, date) == {i \in 1..Len(samples) : DatePart(samples[i].datetime) = date}

DateCount(samples, date, attr) ==
    SumOver(SamplesOn(samples, date),
            [i \in SamplesOn(samples, date) |-> SampleCount(samples[i], attr)])

DateSum(samples, date, attr) ==
    SumOver(SamplesOn(samples, date),
            [i \in SamplesOn(samples, date) |-> SampleSum(samples[i], attr)])

(* C1: every emitted value is the arithmetic mean of all numeric values of *)
(* its attribute over all raw samples of its date (each numeric element of *)
(* an ensemble array and each scalar counted once); on a date with a       *)
(* single scalar sample the emitted value is that scalar.                  *)
C1_MeanOfAllValues ==
    \A r \in DOMAIN pc : Aggregated(r) =>
        \A i \in 1..Len(data[r].results) :
            LET rec == data[r].results[i]
                on == SamplesOn(RawSamples(r), rec.date)
            IN \A attr \in DOMAIN rec.vals :
                /\ DateCount(RawSamples(r), rec.date, attr) > 0
                /\ rec.vals[attr].n * DateCount(RawSamples(r), rec.date, attr)
                     = DateSum(RawSamples(r), rec.date, attr) * rec.vals[attr].d
                /\ \A k \in on :
                      (on = {k} /\ attr \in DOMAIN RawSamples(r)[k].attrs
                                /\ RawSamples(r)[k].attrs[attr].k = "num")
                      => rec.vals[attr].n = RawSamples(r)[k].attrs[attr].n * rec.vals[attr].d

(* a date with an ensemble array and a scalar among its samples was averaged *)
C1_Witness ==
    \E r \in DOMAIN pc :
        /\ Aggregated(r)
        /\ \E i \in 1..Len(data[r].results) :
            LET rec == data[r].results[i]
                on == SamplesOn(RawSamples(r), rec.date)
            IN /\ "max_temperature" \in DOMAIN rec.vals
               /\ \E j, k \in on :
                    /\ "max_temperature" \in DOMAIN RawSamples(r)[j].attrs
                    /\ "max_temperature" \in DOMAIN RawSamples(r)[k].attrs
                    /\ RawSamples(r)[j].attrs["max_temperature"].k = "arr"
                    /\ RawSamples(r)[k].attrs["max_temperature"].k = "num"
               /\ DateCount(RawSamples(r), rec.date, "max_temperature") = 3

IndexPermutations(n) == {p \in [1..n -> 1..n] : \A i, j \in 1..n : i # j => p[i] # p[j]}

DateBefore(a, b) ==
    \E k \in 1..Len(a) :
        /\ k <= Len(b)
        /\ a[k] < b[k]
        /\ \A j \in 1..(k - 1) : a[j] = b[j]

(* C2: the series does not depend on the order of the raw samples, and it *)
(* is sorted strictly ascending by date (no date twice).                   *)
C2_OrderIndependentSorted ==
    \A r \in DOMAIN pc : Aggregated(r) =>
        /\ \A p \in IndexPermutations(Len(RawSamples(r))) :
              Transform(Raw(<<[response[r].raw.results[1] EXCEPT
                                  !.data = [i \in 1..Len(RawSamples(r)) |->
                                               RawSamples(r)[p[i]]]]>>)).results
                = data[r].results
        /\ \A i, j \in 1..Len(data[r].results) :
              i < j => DateBefore(data[r].results[i].date, data[r].results[j].date)

(* three samples arrived latest date first, two of them on one date *)
C2_Witness ==
    \E r \in DOMAIN pc :
        /\ Aggregated(r)
        /\ Len(RawSamples(r)) = 3
        /\ Len(data[r].results) = 2
        /\ DateBefore(DatePart(RawSamples(r)[3].datetime), DatePart(RawSamples(r)[1].datetime))

(***************************************************************************)
(* Properties of the dispatcher                                            *)
(***************************************************************************)
HasLit(text, str) == \E i \in 1..Len(text) : text[i].k = "lit" /\ text[i].s = str

HasKind(text, kind) == \E i \in 1..Len(text) : text[i].k = kind

(* the handler of the request ran (the arguments passed the schema) *)
HandlerRan(r) == pc[r] # "idle" /\ SchemaAccepts(request[r])

InRange(x, lo, hi) == x.k = "number" /\ lo <= x.v /\ x.v <= hi

(* C3: no upstream request is ever issued with a latitude outside         *)
(* [-90, 90], a longitude outside [-180, 180] or a non-numeric coordinate, *)
(* whether the coordinate came from a parameter or from a fallback header. *)
C3_NoInvalidCoordinateUpstream ==
    \A r \in DOMAIN pc : \A i \in 1..Len(upstream[r]) :
        /\ InRange(upstream[r][i].lat, -900, 900)
        /\ InRange(upstream[r][i].lon, -1800, 1800)

(* a coordinate is available from the parameter or from a non-empty header *)
Available(arg, header) == arg.k # "undefined" \/ (header.present /\ header.s # <<>>)

(* C4: each coordinate is the explicit parameter when there is one and the *)
(* parsed fallback header only otherwise; when a coordinate is available   *)
(* from neither, the tool returns the missing-location error and the       *)
(* forecast client is not invoked.                                         *)
C4_ParameterThenHeaderElseMissing ==
    \A r \in DOMAIN pc : HandlerRan(r) =>
        LET q == request[r]
            both == Available(q.latitude, q.headerLat) /\ Available(q.longitude, q.headerLon)
        IN /\ ~both => /\ upstream[r] = <<>>
                       /\ pc[r] = "done"
                       /\ result[r].isError
                       /\ HasKind(result[r].text, "identifier")
                       /\ HasLit(result[r].text, "ERROR: Latitude and longitude are required. Please provide coordinates either as parameters or configure them in the MCP server headers (")
           /\ both => ~HasLit(result[r].text, "ERROR: Latitude and longitude are required. Please provide coordinates either as parameters or configure them in the MCP server headers (")
           /\ \A i \in 1..Len(upstream[r]) :
                /\ q.latitude.k # "undefined" => upstream[r][i].lat = q.latitude
                /\ q.longitude.k # "undefined" => upstream[r][i].lon = q.longitude
                /\ q.latitude.k = "undefined" => upstream[r][i].lat = parseFloat(q.headerLat.s)
                /\ q.longitude.k = "undefined" => upstream[r][i].lon = parseFloat(q.headerLon.s)

(* the latitude came from the header and the longitude from nowhere *)
C4_Witness ==
    \E r \in DOMAIN pc :
        /\ Done(r)
        /\ request[r].latitude.k = "undefined"
        /\ request[r].headerLat.s = <<1, CharDot, 3>>
        /\ ~Available(request[r].longitude, request[r].headerLon)
        /\ result[r] = MissingLocation
        /\ upstream[r] = <<>>

(* a well-formed body (GAPRawResponse) without samples: no results, an    *)
(* empty results list, or a first group whose data is empty                *)
NoSamples(raw) ==
    \/ ~raw.hasResults
    \/ Len(raw.results) = 0
    \/ (raw.results[1].hasGeometry /\ Len(raw.results[1].data) = 0)

Failed(r) ==
    /\ Done(r)
    /\ SchemaAccepts(request[r])
    /\ result[r] # MissingLocation
    /\ (~gapClient \/ data[r].threw)

TechnicalKinds == {"exception", "status", "statusText", "upstreamBody", "identifier"}

(* C10: every failed invocation has isError = true and a generic text:    *)
(* no raw exception text, no upstream status or body, no technical         *)
(* identifier such as an environment-variable name.                        *)
C10_FailuresAreGeneric ==
    \A r \in DOMAIN pc : Failed(r) =>
        /\ result[r].isError
        /\ \A i \in 1..Len(result[r].text) : result[r].text[i].k \notin TechnicalKinds

(***************************************************************************)
(* Properties of the advisory rules                                        *)
(***************************************************************************)
(* the tool of the request answered from a non-empty forecast *)
Advised(r, tool) ==
    /\ Done(r)
    /\ request[r].tool = tool
    /\ ~data[r].threw
    /\ data[r].count > 0

(* the days a tool evaluates: at most the first n of the series *)
Window(r, n) ==
    [i \in 1..(IF data[r].count < n THEN data[r].count ELSE n) |-> data[r].results[i]]

ValueOn(day, attr) == IF attr \in DOMAIN day.vals THEN day.vals[attr] ELSE Rat(0, 1)

(* the sum over the window, folded from the last day *)
RECURSIVE WindowSum(_, _, _)
WindowSum(days, attr, n) ==
    IF n = 0 THEN Rat(0, 1) ELSE RatAdd(WindowSum(days, attr, n - 1), ValueOn(days[n], attr))

WindowTotal(days, attr) == WindowSum(days, attr, Len(days))

WindowMean(days, attr) ==
    LET t == WindowTotal(days, attr) IN Rat(t.n, t.d * Len(days))

Between(x, lo, hi) == lo * x.d <= x.n /\ x.n <= hi * x.d

(* C5: for maize, a mean max temperature within 18-30 C and a total        *)
(* precipitation within 30-100 mm over the evaluated days give the verdict *)
(* YES with a temperature [OK] line and a rainfall [OK] line.              *)
C5_MaizeFavorable ==
    \A r \in DOMAIN pc :
        (/\ Advised(r, "get_planting_recommendation")
         /\ request[r].crop = "maize"
         /\ Between(WindowMean(Window(r, 7), "max_temperature"), 180, 300)
         /\ Between(WindowTotal(Window(r, 7), "precipitation"), 300, 1000))
        => /\ HasLit(result[r].text, VerdictYes)
           /\ ~HasLit(result[r].text, VerdictWait)
           /\ HasLit(result[r].text, "[OK] Temperature is suitable")
           /\ HasLit(result[r].text, "[OK] Rainfall is adequate")

(* maize on two days whose mean is 24 C and whose rain totals 100 mm *)
C5_Witness ==
    \E r \in DOMAIN pc :
        /\ Advised(r, "get_planting_recommendation")
        /\ request[r].crop = "maize"
        /\ data[r].count = 2
        /\ RatEq(WindowMean(Window(r, 7), "max_temperature"), Rat(240, 1))
        /\ RatEq(WindowTotal(Window(r, 7), "precipitation"), Rat(1000, 1))
        /\ HasLit(result[r].text, VerdictYes)

(* C6: for beans, a total precipitation above 70 mm gives the verdict WAIT *)
(* even when the mean max temperature is inside 16-28 C.                   *)
C6_BeansRainOverride ==
    \A r \in DOMAIN pc :
        (/\ Advised(r, "get_planting_recommendation")
         /\ request[r].crop = "beans"
         /\ WindowTotal(Window(r, 7), "precipitation").n
              > 700 * WindowTotal(Window(r, 7), "precipitation").d)
        => /\ HasLit(result[r].text, VerdictWait)
           /\ ~HasLit(result[r].text, VerdictYes)

(* beans at 20 C and 85 mm: the temperature passed and the verdict is WAIT *)
C6_Witness ==
    \E r \in DOMAIN pc :
        /\ Advised(r, "get_planting_recommendation")
        /\ request[r].crop = "beans"
        /\ RatEq(WindowMean(Window(r, 7), "max_temperature"), Rat(200, 1))
        /\ RatEq(WindowTotal(Window(r, 7), "precipitation"), Rat(850, 1))
        /\ HasLit(result[r].text, "[OK] Temperature is suitable")
        /\ HasLit(result[r].text, VerdictWait)

(* the weekly deficit in tenths of a mm: meanMaxTemp * 0.6 * 7 - total *)
Deficit(r) ==
    LET m == WindowMean(Window(r, 7), "max_temperature")
        p == WindowTotal(Window(r, 7), "precipitation")
    IN Rat(m.n * 42 * p.d - p.n * 10 * m.d, 10 * m.d * p.d)

TierLits == {TierNone, TierLight, TierModerate, TierHeavy}

TiersReported(text) == {i \in 1..Len(text) : text[i].k = "lit" /\ text[i].s \in TierLits}

SessionLits ==
    {"  - 1-2 irrigation sessions should be sufficient",
     "  - Schedule 2-3 irrigation sessions", "  - Schedule 3-4 irrigation sessions"}

SessionsReported(text) == {text[i].s : i \in {j \in 1..Len(text) : text[j].s \in SessionLits}}

Drip == "  - Consider drip irrigation for efficiency"

(* C7: exactly one tier is reported: none when deficit <= 0, light with   *)
(* 1-2 sessions when 0 < deficit < 20, moderate with 2-3 sessions when    *)
(* 20 <= deficit < 40, heavy with 3-4 sessions and the drip suggestion     *)
(* when deficit >= 40; a mean max temperature of 29.6 C with 0.6 mm of     *)
(* rain gives ET_daily = 17.76, a deficit of about 123.6 mm and heavy.     *)
C7_IrrigationTiers ==
    \A r \in DOMAIN pc : Advised(r, "get_irrigation_advisory") =>
        LET text == result[r].text
            d == Deficit(r)
            tier == IF d.n <= 0 THEN TierNone
                    ELSE IF d.n < 200 * d.d THEN TierLight
                    ELSE IF d.n < 400 * d.d THEN TierModerate
                    ELSE TierHeavy
        IN /\ Cardinality(TiersReported(text)) = 1
           /\ HasLit(text, tier)
           /\ SessionsReported(text) =
                (CASE tier = TierNone -> {}
                   [] tier = TierLight -> {"  - 1-2 irrigation sessions should be sufficient"}
                   [] tier = TierModerate -> {"  - Schedule 2-3 irrigation sessions"}
                   [] tier = TierHeavy -> {"  - Schedule 3-4 irrigation sessions"})
           /\ HasLit(text, Drip) <=> tier = TierHeavy
           /\ (/\ RatEq(WindowMean(Window(r, 7), "max_temperature"), Rat(296, 1))
               /\ RatEq(WindowTotal(Window(r, 7), "precipitation"), Rat(6, 1)))
              => /\ RatEq(estimatedET(WindowMean(Window(r, 7), "max_temperature")),
                          Rat(1776, 10))
                 /\ 1231 * d.d <= d.n /\ d.n <= 1241 * d.d
                 /\ tier = TierHeavy

(* the advisory for 29.6 C and 0.6 mm reported the heavy tier *)
C7_Witness ==
    \E r \in DOMAIN pc :
        /\ Advised(r, "get_irrigation_advisory")
        /\ RatEq(WindowMean(Window(r, 7), "max_temperature"), Rat(296, 1))
        /\ RatEq(WindowTotal(Window(r, 7), "precipitation"), Rat(6, 1))
        /\ HasLit(result[r].text, TierHeavy)
        /\ HasLit(result[r].text, "  - Schedule 3-4 irrigation sessions")

DeficitShown(text) == {text[i].n : i \in {j \in 1..Len(text) : text[j].k = "deficit"}}

(* C8: when the total precipitation is at least ET_daily * 7 the tier is   *)
(* 'no irrigation needed' and the displayed deficit is 0 mm; the displayed *)
(* deficit is never negative.                                              *)
C8_DeficitClamped ==
    \A r \in DOMAIN pc : Advised(r, "get_irrigation_advisory") =>
        /\ DeficitShown(result[r].text) # {}
        /\ \A shown \in DeficitShown(result[r].text) : shown >= 0
        /\ Deficit(r).n <= 0 =>
              /\ DeficitShown(result[r].text) = {0}
              /\ HasLit(result[r].text, TierNone)

(* rain exceeded the estimated loss: the deficit is negative, 0 mm is shown *)
C8_Witness ==
    \E r \in DOMAIN pc :
        /\ Advised(r, "get_irrigation_advisory")
        /\ Deficit(r).n < 0
        /\ DeficitShown(result[r].text) = {0}
        /\ HasLit(result[r].text, TierNone)

(***************************************************************************)
(* Properties of the tool results                                          *)
(***************************************************************************)
CoordinateKinds == {"lat", "lon"}

(* C11: no caller-facing text returned by any tool contains the raw       *)
(* coordinates, so invocations that differ only in latitude / longitude    *)
(* return the same text.                                                   *)
C11_NoCoordinatesInText ==
    \A r \in DOMAIN pc : Done(r) =>
        \A i \in 1..Len(result[r].text) : result[r].text[i].k \notin CoordinateKinds

(* the forecast client returned an empty series to the tool *)
EmptySeries(r) ==
    /\ Done(r)
    /\ Len(upstream[r]) > 0
    /\ ~data[r].threw
    /\ data[r].count = 0

NoDataLits ==
    {"No weather data available for coordinates (", "No data available for this location."}

(* the kinds of token an advisory computes from the series *)
ComputedKinds == {"num1", "num0", "pct", "deficit", "date", "days"}

(* C12: when the series returned by the client has count = 0, every tool  *)
(* returns a 'no data' message with isError = false and computes nothing   *)
(* from the empty series.                                                  *)
C12_EmptySeriesNoData ==
    \A r \in DOMAIN pc : EmptySeries(r) =>
        /\ ~result[r].isError
        /\ \E str \in NoDataLits : HasLit(result[r].text, str)
        /\ \A i \in 1..Len(result[r].text) : result[r].text[i].k \notin ComputedKinds

(* the irrigation tool received an empty series and said so *)
C12_Witness ==
    \E r \in DOMAIN pc :
        /\ EmptySeries(r)
        /\ request[r].tool = "get_irrigation_advisory"
        /\ response[r].kind = "ok"
        /\ HasLit(result[r].text, "No data available for this location.")
        /\ ~result[r].isError

(* C13: when no credential is configured (gapClient is null) every tool   *)
(* invocation ends with an error result and no upstream request is made,   *)
(* in every sequence of invocations.                                       *)
C13_NoCredentialNoRequest ==
    ~gapClient =>
        \A r \in DOMAIN pc :
            /\ upstream[r] = <<>>
            /\ pc[r] # "awaiting"
            /\ Done(r) => result[r].isError

(* a call with both coordinates, answered without a client *)
C13_Witness ==
    \E r \in DOMAIN pc :
        /\ ~gapClient
        /\ Done(r)
        /\ SchemaAccepts(request[r])
        /\ ResolvedLat(request[r]).k = "number"
        /\ ResolvedLon(request[r]).k = "number"
        /\ result[r] = TokenNotConfigured
        /\ upstream[r] = <<>>

(* C14: every invocation issues at most one upstream request; a non-2xx   *)
(* answer is not retried and ends that same invocation with an error       *)
(* result.                                                                 *)
C14_SingleRequestNoRetry ==
    \A r \in DOMAIN pc :
        /\ Len(upstream[r]) <= 1
        /\ response[r].kind = "http" =>
              /\ Done(r)
              /\ Len(upstream[r]) = 1
              /\ data[r].threw
              /\ result[r].isError

(* the upstream answered 401 to the only request of the invocation *)
C14_Witness ==
    \E r \in DOMAIN pc :
        /\ Done(r)
        /\ response[r] = HttpOutcome(401)
        /\ Len(upstream[r]) = 1
        /\ result[r].isError

(* C15: every tool invocation eventually returns a result, even when the  *)
(* upstream never responds: the client call is bounded by a deadline and a *)
(* timeout is reported as an upstream error.                               *)
C15_EventuallyReturns == (pc[1] = "awaiting") ~> (pc[1] = "done")

(***************************************************************************)
(* Properties of the humidity path                                         *)
(***************************************************************************)
IsPct(tok) == tok.k = "pct"

(* the humidity percentages of a text, in tenths of a percent, in order *)
PctShown(text) == [i \in 1..Len(SelectSeq(text, IsPct)) |-> SelectSeq(text, IsPct)[i].n]

(* a fraction in hundredths, times 100, rounded to one decimal: tenths of *)
(* a percent                                                               *)
TimesHundred(frac) == (2 * frac.n * 10 + frac.d) \div (2 * frac.d)

AllDays(r) == Window(r, data[r].count)

(* the days whose humidity a tool averages *)
HumidityDays(r) ==
    IF request[r].tool = "get_planting_recommendation" THEN Window(r, 7) ELSE AllDays(r)

(* C16: relative humidity stays a fraction through aggregation and the    *)
(* rules; every displayed humidity is the stored fraction multiplied by    *)
(* 100 once, and the tea / coffee rule compares the unconverted fraction   *)
(* with 0.60.                                                              *)
C16_HumidityFractionTimes100Once ==
    \A r \in DOMAIN pc : (Done(r) /\ ~data[r].threw /\ data[r].count > 0) =>
        LET text == result[r].text
            days == AllDays(r)
            mean == WindowMean(HumidityDays(r), "relative_humidity")
        IN /\ \A i \in 1..Len(days) :
                /\ RatEq(days[i].vals["relative_humidity"],
                         Rat(RawSamples(r)[i].attrs["relative_humidity"].n, 1))
                /\ RatGe(days[i].vals["relative_humidity"], Rat(0, 1))
                /\ RatLe(days[i].vals["relative_humidity"], Rat(100, 1))
           /\ IF request[r].tool = "get_weather_forecast"
              THEN PctShown(text) =
                        [i \in 1..Len(days) |-> TimesHundred(days[i].vals["relative_humidity"])]
              ELSE PctShown(text) = <<TimesHundred(mean)>>
           /\ (request[r].tool = "get_planting_recommendation"
               /\ request[r].crop \in {"tea", "coffee"})
              => (HasLit(text, "[OK] Good humidity levels") <=> mean.n >= 60 * mean.d)

(* tea on days whose mean humidity is exactly 0.60: shown as 60.0 %, and  *)
(* the humidity line is there                                              *)
C16_Witness ==
    \E r \in DOMAIN pc :
        /\ Advised(r, "get_planting_recommendation")
        /\ request[r].crop = "tea"
        /\ data[r].count = 2
        /\ RatEq(WindowMean(Window(r, 7), "relative_humidity"), Rat(60, 1))
        /\ PctShown(result[r].text) = <<600>>
        /\ HasLit(result[r].text, "[OK] Good humidity levels")

(***************************************************************************)
(* Properties of the crop enumeration                                      *)
(***************************************************************************)
(* the crop names a tool's schema lets through *)
AcceptedCrops(tool) ==
    {crop \in CropInputs \ {""} : SchemaAccepts(ValidCall(tool, crop))}

(* the three tools accept the same n crop names, and a call naming a crop *)
(* reaches the handler exactly when the crop is one of them                *)
SameCropSetOfSize(n) ==
    /\ AcceptedCrops("get_farming_advisory") = AcceptedCrops("get_planting_recommendation")
    /\ AcceptedCrops("get_planting_recommendation") = AcceptedCrops("get_irrigation_advisory")
    /\ Cardinality(AcceptedCrops("get_planting_recommendation")) = n
    /\ \A r \in DOMAIN pc :
          (pc[r] # "idle" /\ request[r].tool \in CropTools /\ request[r].crop # "") =>
              IF request[r].crop \in AcceptedCrops("get_planting_recommendation")
              THEN Len(upstream[r]) = 1 /\ result[r] # InvalidArguments
              ELSE upstream[r] = <<>> /\ result[r] = InvalidArguments

ValueAfter(text, label) ==
    text[(CHOOSE i \in 1..Len(text) :
            /\ text[i] = Lit(label)
            /\ \A j \in 1..(i - 1) : text[j] # Lit(label)) + 1].n

IsDate(tok) == tok.k = "date"

DatesShown(text) == Len(SelectSeq(text, IsDate))

(* one decimal of an exact value in tenths *)
OneDecimal(x) == (2 * x.n + x.d) \div (2 * x.d)

(* C18: get_planting_recommendation always fetches a 14-day farming       *)
(* forecast, and its statistics, reasons and verdict depend only on the    *)
(* first 7 entries of the series: series that agree on their first 7 days  *)
(* give the same recommendation, whatever the later days are.              *)
C18_PlantingUsesFirstSevenDays ==
    \A r \in DOMAIN pc : request[r].tool = "get_planting_recommendation" =>
        /\ \A i \in 1..Len(upstream[r]) :
              upstream[r][i].days = 14 /\ upstream[r][i].attributes = "farming"
        /\ Advised(r, "get_planting_recommendation") =>
              /\ result[r] = PlantingRecommendation(request[r].crop,
                                 ResolvedLat(request[r]), ResolvedLon(request[r]),
                                 Window(r, 7))
              /\ ValueAfter(result[r].text, "  Temperature: ")
                    = OneDecimal(WindowMean(Window(r, 7), "max_temperature"))
              /\ ValueAfter(result[r].text, "  Expected Rainfall: ")
                    = OneDecimal(WindowTotal(Window(r, 7), "precipitation"))
              /\ ValueAfter(result[r].text, "  Humidity: ")
                    = TimesHundred(WindowMean(Window(r, 7), "relative_humidity"))

(* maize on nine days: the first seven total 49 mm and give YES, the two  *)
(* later days bring the nine-day total above 100 mm                        *)
C18_Witness ==
    \E r \in DOMAIN pc :
        /\ Advised(r, "get_planting_recommendation")
        /\ request[r].crop = "maize"
        /\ data[r].count = 9
        /\ RatEq(WindowTotal(Window(r, 7), "precipitation"), Rat(490, 1))
        /\ RatGt(WindowTotal(AllDays(r), "precipitation"), Rat(1000, 1))
        /\ HasLit(result[r].text, "[OK] Rainfall is adequate")
        /\ HasLit(result[r].text, VerdictYes)

(* C19: get_irrigation_advisory evaluates exactly a 7-day window: the     *)
(* precipitation total, the means and the day-by-day guide cover at most   *)
(* 7 daily entries whatever number of records the fetch returns, so the    *)
(* total is taken over the 7 days that ET_daily * 7 accounts for.          *)
C19_IrrigationUsesSevenDays ==
    \A r \in DOMAIN pc : Advised(r, "get_irrigation_advisory") =>
        /\ DatesShown(result[r].text) <= 7
        /\ ValueAfter(result[r].text, "  Expected Rainfall: ")
              = OneDecimal(WindowTotal(Window(r, 7), "precipitation"))
        /\ ValueAfter(result[r].text, "  Average Temperature: ")
              = OneDecimal(WindowMean(Window(r, 7), "max_temperature"))
        /\ ValueAfter(result[r].text, "  Average Humidity: ")
              = TimesHundred(WindowMean(Window(r, 7), "relative_humidity"))

(***************************************************************************)
(* Properties of the temperature bands                                     *)
(***************************************************************************)
(* the temperature reasons of the planting rules: passed, and not passed *)
TemperaturePassed ==
    {"[OK] Temperature is suitable", "[OK] Temperature suitable for most vegetables",
     "[OK] Temperature is good for rice", "[OK] Temperature suitable for vegetables",
     "[OK] Temperature is in general suitable range"}

TemperatureNotPassed ==
    {"[NO] Temperature is not optimal", "[NO] Temperature may be challenging",
     "[NO] Temperature not ideal for wheat", "[NO] Temperature not ideal",
     "[NO] Temperature not optimal for crop", "[NO] Temperature not optimal",
     "[WARN] Temperature may be challenging for vegetables",
     "[WARN] Temperature not ideal for crop"}

(* the inclusive band of each crop, in degrees *)
TemperatureBand(crop) ==
    CASE crop = "maize" -> <<18, 30>>
      [] crop = "wheat" -> <<15, 25>>
      [] crop = "beans" -> <<16, 28>>
      [] crop = "vegetables" -> <<15, 32>>
      [] crop = "rice" -> <<20, 35>>
      [] crop \in {"tea", "coffee"} -> <<18, 26>>
      [] crop \in {"sorghum", "millet"} -> <<22, 35>>
      [] crop = "cassava" -> <<20, 32>>
      [] crop \in {"sweet_potato", "potato"} -> <<15, 27>>
      [] crop \in {"tomato", "cabbage", "kale", "onion"} -> <<15, 28>>
      [] crop = "banana" -> <<22, 32>>
      [] crop = "sugarcane" -> <<20, 32>>
      [] crop \in {"cowpea", "pigeon_pea", "groundnut"} -> <<20, 32>>
      [] crop = "sunflower" -> <<18, 28>>
      [] crop = "cotton" -> <<20, 30>>

TemperatureReasons(text) ==
    {i \in 1..Len(text) :
        text[i].k = "lit" /\ text[i].s \in TemperaturePassed \cup TemperatureNotPassed}

(* C20: for every crop of the enumeration the planting tool appends       *)
(* exactly one temperature reason, the passed one exactly when the mean    *)
(* max temperature of the evaluated days lies in the crop's inclusive band *)
(* (maize 18-30, wheat 15-25, beans 16-28, vegetables 15-32, rice 20-35,   *)
(* tea/coffee 18-26, sorghum/millet 22-35, cassava 20-32, sweet_potato /   *)
(* potato 15-27, tomato/cabbage/kale/onion 15-28, banana 22-32, sugarcane  *)
(* 20-32, cowpea/pigeon_pea/groundnut 20-32, sunflower 18-28, cotton       *)
(* 20-30).                                                                 *)
C20_OneTemperatureReasonPerBand ==
    \A r \in DOMAIN pc : Advised(r, "get_planting_recommendation") =>
        LET text == result[r].text
            mean == WindowMean(Window(r, 7), "max_temperature")
            band == TemperatureBand(request[r].crop)
            inside == band[1] * 10 * mean.d <= mean.n /\ mean.n <= band[2] * 10 * mean.d
        IN /\ Cardinality(TemperatureReasons(text)) = 1
           /\ \A i \in TemperatureReasons(text) : text[i].s \in TemperaturePassed <=> inside

(* cotton on two days whose mean is exactly 30 C passed; the band's upper *)
(* limit is inclusive                                                      *)
C20_Witness ==
    \E r \in DOMAIN pc :
        /\ Advised(r, "get_planting_recommendation")
        /\ request[r].crop = "cotton"
        /\ data[r].count = 2
        /\ RatEq(WindowMean(Window(r, 7), "max_temperature"), Rat(300, 1))
        /\ HasLit(result[r].text, "[OK] Temperature is suitable")

(***************************************************************************)
(* Properties of the rainfall checks                                       *)
(***************************************************************************)
(* the passed rainfall / moisture reasons of the planting rules *)
RainfallPassed ==
    {"[OK] Rainfall is adequate", "[OK] Moisture levels are good",
     "[OK] Rainfall is appropriate", "[OK] Adequate moisture expected",
     "[OK] High rainfall suitable for rice cultivation",
     "[OK] Sufficient moisture for germination", "[OK] Good rainfall for establishment",
     "[OK] Good moisture levels", "[OK] Good rainfall for bananas",
     "[OK] Appropriate rainfall", "[OK] Good rainfall conditions",
     "[OK] Some rainfall expected"}

(* lo <= total <= hi, both in mm, total an exact value in tenths *)
TotalWithin(total, lo, hi) == lo * 10 * total.d <= total.n /\ total.n <= hi * 10 * total.d

TotalAtLeast(total, lo) == lo * 10 * total.d <= total.n

(* the rainfall range of each crop other than sorghum, millet, tea, coffee *)
RainfallRange(crop, total) ==
    CASE crop = "maize" -> TotalWithin(total, 30, 100)
      [] crop = "wheat" -> TotalWithin(total, 20, 60)
      [] crop = "beans" -> TotalWithin(total, 20, 70)
      [] crop = "vegetables" -> TotalAtLeast(total, 15)
      [] crop = "rice" -> TotalAtLeast(total, 50)
      [] crop = "cassava" -> TotalAtLeast(total, 40)
      [] crop \in {"sweet_potato", "potato"} -> TotalWithin(total, 30, 80)
      [] crop \in {"tomato", "cabbage", "kale", "onion"} -> TotalWithin(total, 20, 60)
      [] crop = "banana" -> TotalAtLeast(total, 50)
      [] crop = "sugarcane" -> TotalAtLeast(total, 40)
      [] crop \in {"cowpea", "pigeon_pea", "groundnut"} -> TotalWithin(total, 25, 70)
      [] crop = "sunflower" -> TotalWithin(total, 20, 60)
      [] crop = "cotton" -> TotalWithin(total, 25, 70)

(* sorghum / millet as stated: below 50 mm *)
SorghumBelow50(total) == total.n < 500 * total.d

(* sorghum / millet as coded: at least 15 mm *)
SorghumAtLeast15(total) == TotalAtLeast(total, 15)

(* the passed rainfall reason is there exactly in the crop's range, and   *)
(* for tea / coffee the humidity reason exactly from 0.60 on               *)
RainfallReasonInRange(Sorghum(_)) ==
    \A r \in DOMAIN pc : Advised(r, "get_planting_recommendation") =>
        LET text == result[r].text
            crop == request[r].crop
            total == WindowTotal(Window(r, 7), "precipitation")
            humidity == WindowMean(Window(r, 7), "relative_humidity")
            passed == \E str \in RainfallPassed : HasLit(text, str)
        IN IF crop \in {"tea", "coffee"}
           THEN /\ ~passed
                /\ HasLit(text, "[OK] Good humidity levels") <=> humidity.n >= 60 * humidity.d
           ELSE /\ ~HasLit(text, "[OK] Good humidity levels")
                /\ passed <=> (IF crop \in {"sorghum", "millet"} THEN Sorghum(total)
                               ELSE RainfallRange(crop, total))

(* C21 as stated: for every crop the planting tool appends a passed       *)
(* rainfall / moisture reason exactly when the total precipitation of the  *)
(* evaluated days lies in the crop's range (maize 30-100, wheat 20-60,     *)
(* beans 20-70, vegetables >= 15, rice >= 50, sorghum/millet < 50, cassava *)
(* >= 40, sweet_potato/potato 30-80, tomato/cabbage/kale/onion 20-60,      *)
(* banana >= 50, sugarcane >= 40, cowpea/pigeon_pea/groundnut 25-70,       *)
(* sunflower 20-60, cotton 25-70), and for tea/coffee a passed humidity    *)
(* reason exactly when the mean relative humidity is >= 0.60.              *)
C21_RainfallReasonAsStated == RainfallReasonInRange(SorghumBelow50)

(* C21 amended: the same, with sorghum/millet >= 15 mm.                   *)
C21_RainfallReasonSorghumFrom15 == RainfallReasonInRange(SorghumAtLeast15)

(* sorghum on a total of exactly 50 mm got the passed moisture reason *)
C21_Witness ==
    \E r \in DOMAIN pc :
        /\ Advised(r, "get_planting_recommendation")
        /\ request[r].crop = "sorghum"
        /\ RatEq(WindowTotal(Window(r, 7), "precipitation"), Rat(500, 1))
        /\ HasLit(result[r].text, "[OK] Sufficient moisture for germination")

(***************************************************************************)
(* Properties of the planting verdict                                      *)
(***************************************************************************)
SaysYes(text) == HasLit(text, VerdictYes)

SaysWait(text) == HasLit(text, VerdictWait)

TemperatureCheckPassed(text) == \E str \in TemperaturePassed : HasLit(text, str)

(* the mean max temperature of the evaluated days is in the crop's band *)
InsideBand(r) ==
    LET mean == WindowMean(Window(r, 7), "max_temperature")
        band == TemperatureBand(request[r].crop)
    IN band[1] * 10 * mean.d <= mean.n /\ mean.n <= band[2] * 10 * mean.d

(* C22: for every crop other than beans the planting verdict is a         *)
(* function of the temperature check alone: YES exactly when the check     *)
(* passed, whatever the total precipitation and the humidity are; beans is *)
(* the only crop whose rainfall check can change the verdict.              *)
C22_VerdictFollowsTemperature ==
    \A r \in DOMAIN pc : Advised(r, "get_planting_recommendation") =>
        LET text == result[r].text
            total == WindowTotal(Window(r, 7), "precipitation")
        IN /\ SaysYes(text) # SaysWait(text)
           /\ request[r].crop # "beans" =>
                 /\ SaysYes(text) <=> TemperatureCheckPassed(text)
                 /\ SaysYes(text) <=> InsideBand(r)
           /\ request[r].crop = "beans" =>
                 (SaysYes(text) <=> (InsideBand(r) /\ total.n <= 700 * total.d))

(* groundnut at 30 C with 100 mm: the high-rainfall warning is there and  *)
(* the verdict is still YES                                                *)
C22_Witness ==
    \E r \in DOMAIN pc :
        /\ Advised(r, "get_planting_recommendation")
        /\ request[r].crop = "groundnut"
        /\ RatEq(WindowMean(Window(r, 7), "max_temperature"), Rat(300, 1))
        /\ RatEq(WindowTotal(Window(r, 7), "precipitation"), Rat(1000, 1))
        /\ HasLit(result[r].text, "[WARN] High rainfall - monitor for waterlogging")
        /\ SaysYes(result[r].text)

(***************************************************************************)
(* Properties of the farming advisory                                      *)
(***************************************************************************)
HeatStress == "  [WARN] High temperatures expected. Consider:"

ColdDelay == "  [WARN] Cool temperatures expected. Consider:"

TemperatureFavorable == "  [OK] Temperature conditions are favorable for most crops"

Drought == "  [WARN] Low rainfall expected. Action needed:"

ExcessRainfall == "  [WARN] Heavy rainfall expected. Take precautions:"

RainfallAdequate == "  [OK] Rainfall levels are adequate for normal farming activities"

TemperatureRecommendations == {HeatStress, ColdDelay, TemperatureFavorable}

RainfallRecommendations == {Drought, ExcessRainfall, RainfallAdequate}

(* where the literals of a set stand in a text *)
Places(text, lits) == {i \in 1..Len(text) : text[i].k = "lit" /\ text[i].s \in lits}

(* the recommendation the stated thresholds select *)
TemperatureFor(mean) ==
    IF mean.n > 350 * mean.d THEN HeatStress
    ELSE IF mean.n < 150 * mean.d THEN ColdDelay
    ELSE TemperatureFavorable

RainfallFor(total) ==
    IF total.n < 100 * total.d THEN Drought
    ELSE IF total.n > 1000 * total.d THEN ExcessRainfall
    ELSE RainfallAdequate

(* the advisory text for a forecast of the given days *)
AdvisoryTextFor(days) ==
    Continue(ValidCall("get_farming_advisory", ""),
             getMeasurement(OkOutcome(SeriesBody(days)))).text

(* every pair of a temperature and a rainfall recommendation is the       *)
(* advisory of some forecast of one or two days                            *)
AllNineReachable ==
    \A t \in TemperatureRecommendations : \A p \in RainfallRecommendations :
        \E days \in SeqsUpTo(FarmProfiles, 2) :
            LET text == AdvisoryTextFor(days)
            IN HasLit(text, t) /\ HasLit(text, p)

(* C23: the farming advisory has exactly one temperature recommendation   *)
(* followed by exactly one rainfall recommendation, each chosen by its own *)
(* thresholds alone (mean max temperature > 35 heat stress, < 15 cold      *)
(* delay, otherwise favorable; total precipitation < 10 drought, > 100     *)
(* excess, otherwise adequate), and all nine pairs occur.  That all nine   *)
(* occur does not depend on the state; it is stated of the server at rest. *)
C23_TwoIndependentRecommendations ==
    /\ \A r \in DOMAIN pc : Advised(r, "get_farming_advisory") =>
        LET text == result[r].text
            days == Window(r, data[r].count)
            temps == Places(text, TemperatureRecommendations)
            rains == Places(text, RainfallRecommendations)
        IN /\ Cardinality(temps) = 1
           /\ Cardinality(rains) = 1
           /\ \A i \in temps : \A j \in rains :
                /\ i < j
                /\ text[i].s = TemperatureFor(WindowMean(days, "max_temperature"))
                /\ text[j].s = RainfallFor(WindowTotal(days, "precipitation"))
    /\ (\A r \in DOMAIN pc : pc[r] = "idle") => AllNineReachable

(* a hot and wet forecast: mean 35.5 C and 100.1 mm give both the heat    *)
(* and the excess-rainfall guidance                                        *)
C23_Witness ==
    \E r \in DOMAIN pc :
        /\ Advised(r, "get_farming_advisory")
        /\ RatEq(WindowMean(Window(r, data[r].count), "max_temperature"), Rat(355, 1))
        /\ RatEq(WindowTotal(Window(r, data[r].count), "precipitation"), Rat(1001, 1))
        /\ HasLit(result[r].text, HeatStress)
        /\ HasLit(result[r].text, ExcessRainfall)

GenericAdvice == "  - Consult local extension for specific advice"

CropFavorable ==
    {"  [OK] Conditions favorable for maize growth", "  [OK] Good conditions for wheat",
     "  [OK] Good conditions for crop", "  [OK] Good conditions for vegetable cultivation"}

(* the part of an advisory from its "Specific advice for" line on *)
CropBlock(text) ==
    LET from == CHOOSE i \in 1..Len(text) : text[i] = Lit("Specific advice for ")
    IN SubSeq(text, from, Len(text))

(* C24: with a crop of the enumeration, the farming advisory appends that *)
(* crop's own block of guidance, with at most one conditional favorable    *)
(* line; no supported crop gets the generic block.                         *)
C24_EveryCropHasItsOwnBlock ==
    \A r \in DOMAIN pc :
        (Advised(r, "get_farming_advisory") /\ request[r].crop \in CropEnum) =>
            LET text == result[r].text
            IN /\ HasLit(text, "Specific advice for ")
               /\ Cardinality(Places(CropBlock(text), CropFavorable)) <= 1
               /\ ~HasLit(text, GenericAdvice)

FieldWorkLine == "  Good days for field work: "

(* the days of a series with less than 2 mm of precipitation *)
DryIndices(days) ==
    {i \in 1..Len(days) :
        ValueOn(days[i], "precipitation").n < 20 * ValueOn(days[i], "precipitation").d}

Min(a, b) == IF a < b THEN a ELSE b

(* C25: the farming advisory lists as good days for field work only dates *)
(* of the window with precipitation < 2 mm, at most 3 of them, the         *)
(* earliest ones in ascending date order; with no such day there is no     *)
(* date list.                                                              *)
C25_GoodDaysAreTheFirstDryDays ==
    \A r \in DOMAIN pc : Advised(r, "get_farming_advisory") =>
        LET text == result[r].text
            days == data[r].results
            dry == DryIndices(days)
            shown == SelectSeq(text, IsDate)
        IN /\ Len(shown) = Min(Cardinality(dry), 3)
           /\ \A k \in 1..Len(shown) :
                \E i \in dry : /\ shown[k] = DateTok(days[i].date)
                               /\ Cardinality({j \in dry : j < i}) = k - 1
           /\ \A k \in 1..(Len(shown) - 1) : shown[k].n < shown[k + 1].n
           /\ HasLit(text, FieldWorkLine) <=> dry # {}
           /\ HasLit(text, "Best Days for Farming Activities:")

(* four days, the first with exactly 2.0 mm and three dry ones after it:  *)
(* the list starts at the second day                                       *)
C25_Witness ==
    \E r \in DOMAIN pc :
        /\ Advised(r, "get_farming_advisory")
        /\ data[r].count = 4
        /\ DryIndices(data[r].results) = {2, 3, 4}
        /\ RatEq(ValueOn(data[r].results[1], "precipitation"), Rat(20, 1))
        /\ DatesShown(result[r].text) = 3
        /\ SelectSeq(result[r].text, IsDate)[1] = DateTok(data[r].results[2].date)

(* four dry days: the fourth is left out *)
C25_FourthDryDayNotShown ==
    \E r \in DOMAIN pc :
        /\ Advised(r, "get_farming_advisory")
        /\ DryIndices(data[r].results) = {1, 2, 3, 4}
        /\ DatesShown(result[r].text) = 3

(***************************************************************************)
(* Properties of the day-by-day irrigation guide                           *)
(***************************************************************************)
SkipIrrigation == "    [OK] Skip irrigation - sufficient rain expected"

LightIrrigation == "    [WARN] Light irrigation if soil is dry"

IrrigateHot == "    Irrigate - hot and dry conditions"

IrrigateIfDry == "    Irrigate if no recent rain"

DailyRecommendations == {SkipIrrigation, LightIrrigation, IrrigateHot, IrrigateIfDry}

(* the recommendation the stated precedence gives a day *)
GuideFor(day) ==
    LET precip == ValueOn(day, "precipitation")
        maxTemp == ValueOn(day, "max_temperature")
    IN IF precip.n >= 100 * precip.d THEN SkipIrrigation
       ELSE IF precip.n >= 50 * precip.d THEN LightIrrigation
       ELSE IF maxTemp.n > 300 * maxTemp.d THEN IrrigateHot
       ELSE IrrigateIfDry

(* the k-th element of a set of places, in ascending order *)
PlaceNo(places, k) == CHOOSE p \in places : Cardinality({q \in places : q < p}) = k - 1

(* C26: in the day-by-day guide of the irrigation advisory each day gets  *)
(* exactly one recommendation, by this precedence and whatever the weekly  *)
(* tier is: precipitation >= 10 mm skip; otherwise >= 5 mm light           *)
(* irrigation; otherwise max temperature > 30 C irrigate, hot and dry;     *)
(* otherwise irrigate if no recent rain.  A hot day with >= 10 mm is skip. *)
C26_OneRecommendationPerDay ==
    \A r \in DOMAIN pc : Advised(r, "get_irrigation_advisory") =>
        LET text == result[r].text
            days == data[r].results
            dates == {i \in 1..Len(text) : IsDate(text[i])}
            advice == Places(text, DailyRecommendations)
        IN /\ Cardinality(dates) = Len(days)
           /\ Cardinality(advice) = Len(days)
           /\ \A k \in 1..Len(days) :
                LET d == PlaceNo(dates, k)
                    a == PlaceNo(advice, k)
                IN /\ text[d] = DateTok(days[k].date)
                   /\ d < a
                   /\ k < Len(days) => a < PlaceNo(dates, k + 1)
                   /\ text[a].s = GuideFor(days[k])
                   /\ (/\ ValueOn(days[k], "max_temperature").n > 300
                       /\ ValueOn(days[k], "precipitation").n >= 100) => text[a].s = SkipIrrigation

(* a hot day with exactly 10.0 mm in a week whose tier is heavy           *)
(* irrigation: the day's advice is to skip                                 *)
C26_Witness ==
    \E r \in DOMAIN pc :
        /\ Advised(r, "get_irrigation_advisory")
        /\ data[r].count = 2
        /\ RatEq(ValueOn(data[r].results[1], "max_temperature"), Rat(350, 1))
        /\ RatEq(ValueOn(data[r].results[1], "precipitation"), Rat(100, 1))
        /\ HasLit(result[r].text, TierHeavy)
        /\ result[r].text[PlaceNo(Places(result[r].text, DailyRecommendations), 1)].s
              = SkipIrrigation
        /\ result[r].text[PlaceNo(Places(result[r].text, DailyRecommendations), 2)].s
              = IrrigateHot

(***************************************************************************)
(* Properties of concurrent requests                                       *)
(***************************************************************************)
(* the number a fallback header of the requests above stands for *)
HeaderNumber(header) ==
    CASE header = Farm13 -> JsNum(13)
      [] header = Farm368 -> JsNum(368)
      [] header = Farm25 -> JsNum(25)
      [] header = Farm30 -> JsNum(300)
      [] OTHER -> Undefined

(* a request's own coordinate: its parameter, else its own header *)
Own(arg, header) == IF arg.k # "undefined" THEN arg ELSE HeaderNumber(header)

(* what the request returns when it is the only one served *)
Alone(q, outcome) ==
    IF ~SchemaAccepts(q) THEN InvalidArguments
    ELSE IF EarlyReturn(q) # NoResult THEN EarlyReturn(q)
    ELSE IF ~gapClient THEN TokenNotConfigured
    ELSE Continue(q, getMeasurement(outcome))

(* C27: requests served concurrently do not interfere.  Under every       *)
(* interleaving each result depends only on the request's own parameters,  *)
(* its own fallback headers and its own upstream response, and is the      *)
(* result of the request run alone; no request sees another's fallback     *)
(* coordinates.                                                            *)
C27_RequestsDoNotInterfere ==
    \A r \in DOMAIN pc :
        LET q == request[r]
            lat == Own(q.latitude, q.headerLat)
            lon == Own(q.longitude, q.headerLon)
        IN /\ \A i \in 1..Len(upstream[r]) :
                upstream[r][i].lat = lat /\ upstream[r][i].lon = lon
           /\ Done(r) =>
                /\ result[r] = Alone(q, response[r])
                /\ \A i \in 1..Len(result[r].text) :
                      /\ result[r].text[i].k = "lat" => result[r].text[i] = CoordTok("lat", lat)
                      /\ result[r].text[i].k = "lon" => result[r].text[i] = CoordTok("lon", lon)
                /\ (lat.k = "undefined") <=> (result[r] = MissingLocation)
                /\ \A o \in DOMAIN pc :
                      (Done(o) /\ request[o] = q /\ response[o] = response[r])
                          => result[o] = result[r]

(* two requests finished side by side, each on its own fallback headers   *)
(* and its own upstream answer, each text carrying its own coordinates     *)
C27_Witness ==
    /\ Done(1) /\ Done(2)
    /\ request[1].latitude = Undefined /\ request[2].latitude = Undefined
    /\ request[1].headerLat = Farm13 /\ request[2].headerLat = Farm25
    /\ response[1] # response[2]
    /\ \E i \in 1..Len(result[1].text) : result[1].text[i] = CoordTok("lat", JsNum(13))
    /\ \E i \in 1..Len(result[2].text) : result[2].text[i] = CoordTok("lat", JsNum(25))

(***************************************************************************)
(* Properties of the aggregated records                                    *)
(***************************************************************************)
(* the attribute names the raw samples of a request use *)
RawAttributes(r) == UNION {DOMAIN RawSamples(r)[i].attrs : i \in 1..Len(RawSamples(r))}

(* C28: an attribute is in a date's record if and only if that date's     *)
(* samples hold at least one numeric value for it; an attribute with only  *)
(* non-numeric or absent values is left out (not set to zero or null), and *)
(* the non-numeric values do not change the mean of the numeric ones.      *)
C28_AttributePresentIffNumeric ==
    \A r \in DOMAIN pc : Aggregated(r) =>
        \A i \in 1..Len(data[r].results) :
            LET rec == data[r].results[i]
            IN /\ DOMAIN rec.vals \subseteq RawAttributes(r)
               /\ \A attr \in RawAttributes(r) :
                    LET count == DateCount(RawSamples(r), rec.date, attr)
                    IN /\ attr \in DOMAIN rec.vals <=> count > 0
                       /\ attr \in DOMAIN rec.vals =>
                            rec.vals[attr].n * count
                                = DateSum(RawSamples(r), rec.date, attr) * rec.vals[attr].d

(* a date whose only max_temperature is a string and whose precipitation  *)
(* is a number: the record has precipitation and no max_temperature        *)
C28_Witness ==
    \E r \in DOMAIN pc :
        /\ Aggregated(r)
        /\ Len(RawSamples(r)) = 1
        /\ RawSamples(r)[1].attrs = [max_temperature |-> StrV, precipitation |-> NumV(5)]
        /\ Len(data[r].results) = 1
        /\ DOMAIN data[r].results[1].vals = {"precipitation"}

(* a date with a string and an array holding null next to a number: the   *)
(* mean is the number                                                      *)
C28_NonNumericBesideNumeric ==
    \E r \in DOMAIN pc :
        /\ Aggregated(r)
        /\ Len(RawSamples(r)) = 2
        /\ RawSamples(r)[1].attrs = [max_temperature |-> StrV]
        /\ RawSamples(r)[2].attrs
              = [max_temperature |-> ArrV(<<NullV, NumV(6)>>), precipitation |-> NumV(5)]
        /\ Len(data[r].results) = 1
        /\ RatEq(data[r].results[1].vals["max_temperature"], Rat(6, 1))

(***************************************************************************)
(* Properties of the reasons list                                          *)
(***************************************************************************)
PassedReasons == TemperaturePassed \cup RainfallPassed \cup {"[OK] Good humidity levels"}

WarningReasons ==
    {"[WARN] Consider irrigation for establishment",
     "[WARN] Ensure adequate irrigation for rice paddies", "[WARN] Ensure adequate irrigation",
     "[WARN] Ensure irrigation during establishment phase",
     "[WARN] High rainfall - beans are sensitive to waterlogging",
     "[WARN] High rainfall - ensure good drainage",
     "[WARN] High rainfall - monitor for waterlogging",
     "[WARN] Low rainfall - irrigation will be needed", "[WARN] Plan for irrigation",
     "[WARN] Plan for regular irrigation", "[WARN] Rainfall may not be optimal",
     "[WARN] Temperature may be challenging for vegetables",
     "[WARN] Temperature not ideal for crop",
     "[WARN] Very high rainfall - ensure good drainage"}

FailedReasons ==
    {"[NO] Temperature is not optimal", "[NO] Temperature may be challenging",
     "[NO] Temperature not ideal for wheat", "[NO] Temperature not ideal",
     "[NO] Temperature not optimal for crop", "[NO] Temperature not optimal"}

PlaceOf(text, str) == CHOOSE i \in 1..Len(text) : text[i] = Lit(str)

(* the lines between "Assessment:" and the verdict *)
ReasonsListed(text) ==
    LET from == PlaceOf(text, "Assessment:")
        to == IF SaysYes(text) THEN PlaceOf(text, VerdictYes) ELSE PlaceOf(text, VerdictWait)
    IN [i \in 1..(to - from - 1) |-> text[from + i].s]

Listed(reasons, set) == \E i \in 1..Len(reasons) : reasons[i] \in set

(* C29: in every planting recommendation the verdict and the reasons      *)
(* agree: the list of reasons is not empty; YES comes with a passed        *)
(* temperature reason and without any failed reason; WAIT comes with at    *)
(* least one warning or failed reason.                                     *)
C29_VerdictAgreesWithReasons ==
    \A r \in DOMAIN pc : Advised(r, "get_planting_recommendation") =>
        LET text == result[r].text
            reasons == ReasonsListed(text)
        IN /\ HasLit(text, "Assessment:")
           /\ SaysYes(text) \/ SaysWait(text)
           /\ Len(reasons) >= 1
           /\ \A i \in 1..Len(reasons) :
                reasons[i] \in PassedReasons \cup WarningReasons \cup FailedReasons
           /\ SaysYes(text) => /\ Listed(reasons, TemperaturePassed)
                               /\ ~Listed(reasons, FailedReasons)
           /\ SaysWait(text) => Listed(reasons, WarningReasons \cup FailedReasons)

(* beans with a temperature in band and more than 70 mm: WAIT, with the   *)
(* passed temperature reason and the waterlogging warning                  *)
C29_Witness ==
    \E r \in DOMAIN pc :
        /\ Advised(r, "get_planting_recommendation")
        /\ request[r].crop = "beans"
        /\ SaysWait(result[r].text)
        /\ ReasonsListed(result[r].text)
              = <<"[OK] Temperature is suitable",
                  "[WARN] High rainfall - beans are sensitive to waterlogging">>

(* rice outside its band with enough rain: WAIT, with a failed and a      *)
(* passed reason                                                           *)
C29_WaitWithFailedReason ==
    \E r \in DOMAIN pc :
        /\ Advised(r, "get_planting_recommendation")
        /\ request[r].crop = "rice"
        /\ SaysWait(result[r].text)
        /\ ReasonsListed(result[r].text)
              = <<"[NO] Temperature not ideal", "[OK] High rainfall suitable for rice cultivation">>

(***************************************************************************)
(* Properties of the window statistics                                     *)
(***************************************************************************)
(* the days of a window whose record has the attribute *)
DaysWith(days, attr) == {i \in 1..Len(days) : attr \in DOMAIN days[i].vals}

(* the sum of the values the records have, the others adding nothing *)
RECURSIVE SumOfPresent(_, _, _)
SumOfPresent(days, attr, n) ==
    IF n = 0 THEN Rat(0, 1)
    ELSE IF attr \in DOMAIN days[n].vals
         THEN RatAdd(SumOfPresent(days, attr, n - 1), days[n].vals[attr])
         ELSE SumOfPresent(days, attr, n - 1)

(* that sum over the number of all days of the window *)
MeanOverAllDays(days, attr) ==
    LET sum == SumOfPresent(days, attr, Len(days)) IN Rat(sum.n, sum.d * Len(days))

StatisticsTools ==
    {"get_farming_advisory", "get_planting_recommendation", "get_irrigation_advisory"}

(* the days a tool takes its statistics over *)
StatisticsDays(r) ==
    IF request[r].tool = "get_planting_recommendation" THEN Window(r, 7) ELSE AllDays(r)

TemperatureLabel(tool) ==
    CASE tool = "get_farming_advisory" -> "  Average Max Temperature: "
      [] tool = "get_planting_recommendation" -> "  Temperature: "
      [] tool = "get_irrigation_advisory" -> "  Average Temperature: "

RainfallLabel(tool) ==
    IF tool = "get_farming_advisory" THEN "  Total Expected Rainfall: "
    ELSE "  Expected Rainfall: "

(* C30: in the statistics of the farming, planting and irrigation tools a *)
(* day whose record lacks an attribute counts as 0 for it: it adds 0 to the *)
(* sum and still counts in the divisor, so each mean is the sum of the     *)
(* present values over the number of all days of the window.               *)
C30_MissingAttributeCountsAsZero ==
    \A r \in DOMAIN pc : \A tool \in StatisticsTools : Advised(r, tool) =>
        LET text == result[r].text
            days == StatisticsDays(r)
            total == SumOfPresent(days, "precipitation", Len(days))
        IN /\ ValueAfter(text, TemperatureLabel(tool))
                = OneDecimal(MeanOverAllDays(days, "max_temperature"))
           /\ ValueAfter(text, RainfallLabel(tool)) = OneDecimal(total)
           /\ PctShown(text)[1] = TimesHundred(MeanOverAllDays(days, "relative_humidity"))
           /\ tool = "get_farming_advisory" =>
                ValueAfter(text, "  Average Min Temperature: ")
                    = OneDecimal(MeanOverAllDays(days, "min_temperature"))

(* two days of 24.0 C, the second without max_temperature in its record:  *)
(* the mean shown is 12.0                                                  *)
C30_Witness ==
    \E r \in DOMAIN pc :
        /\ Advised(r, "get_planting_recommendation")
        /\ data[r].count = 2
        /\ DaysWith(data[r].results, "max_temperature") = {1}
        /\ RatEq(data[r].results[1].vals["max_temperature"], Rat(240, 1))
        /\ ValueAfter(result[r].text, "  Temperature: ") = 120

(* the same for the humidity of the irrigation advisory: 0.50 and a day   *)
(* without humidity show 25.0 %                                            *)
C30_HumidityOverAllDays ==
    \E r \in DOMAIN pc :
        /\ Advised(r, "get_irrigation_advisory")
        /\ data[r].count = 2
        /\ DaysWith(data[r].results, "relative_humidity") = {2}
        /\ RatEq(data[r].results[2].vals["relative_humidity"], Rat(50, 1))
        /\ PctShown(result[r].text)[1] = 250

====
